---- MODULE Spec2Model ----
(***************************************************************************)
(* State-machine model of the media analyzers of data-analysis/:           *)
(* util/body_keypoints.py, util/face_keypoints.py, util/text_boxes.py,     *)
(* util/sound_extraction.py, util/llm_insights.py, util/video_length.py,   *)
(* util/sound.py, util/depth_map.py, util/color_theory.py,                 *)
(* lib/file_utils.py, lib/time_utils.py and the file loop of main.py.      *)
(*                                                                         *)
(* A report is the sequence of the lines that "\n".join(result_lines)      *)
(* joins.  A line is a tuple <<indent, token, ...>>: the number of leading *)
(* blanks followed by the pieces of the formatted text in their order,    *)
(* every piece a string (numbers go through ToString).                     *)
(***************************************************************************)
EXTENDS Integers, Sequences, FiniteSets, TLC

\* ------------------------------------------------------------------ bounds
\* longest queue of files handed to the loop of main.py
MaxQueue == 2
\* most frames of a stream in Spec
MaxFrames == 2
\* longest duration format_duration is given, in seconds
MaxDuration == 3661
\* longest stream of SpecSampler, in sampling intervals: a stream of rate fps
\* has at most MaxSeconds * max(1, int(fps)) frames
MaxSeconds == 3

\* ------------------------------------------------------- generic helpers
Range(s) == {s[i] : i \in 1..Len(s)}

RECURSIVE Flatten(_)
Flatten(ss) == IF ss = <<>> THEN <<>> ELSE Head(ss) \o Flatten(Tail(ss))

Last(s) == s[Len(s)]

\* str of a sequence of characters
RECURSIVE Str(_)
Str(cs) == IF cs = <<>> THEN "" ELSE Head(cs) \o Str(Tail(cs))

\* --------------------------------------------------------- file_utils.py
UpperAlpha == <<"A","B","C","D","E","F","G","H","I","J","K","L","M",
                "N","O","P","Q","R","S","T","U","V","W","X","Y","Z">>
LowerAlpha == <<"a","b","c","d","e","f","g","h","i","j","k","l","m",
                "n","o","p","q","r","s","t","u","v","w","x","y","z">>

\* str.lower() on one character
LowerChar(c) ==
    IF \E i \in 1..26 : UpperAlpha[i] = c
    THEN LowerAlpha[CHOOSE i \in 1..26 : UpperAlpha[i] = c]
    ELSE c

\* str.lower(): a suffix is the sequence of its characters
Lower(s) == [i \in 1..Len(s) |-> LowerChar(s[i])]

image_extensions ==
    { <<".","p","n","g">>, <<".","j","p","g">>, <<".","j","p","e","g">>,
      <<".","g","i","f">>, <<".","b","m","p">>, <<".","w","e","b","p">>,
      <<".","s","v","g">>, <<".","t","i","f","f">>, <<".","i","c","o">> }

video_extensions ==
    { <<".","m","p","4">>, <<".","a","v","i">>, <<".","m","o","v">>,
      <<".","m","k","v">>, <<".","f","l","v">>, <<".","w","m","v">>,
      <<".","w","e","b","m">>, <<".","m","4","v">>, <<".","m","p","e","g">>,
      <<".","m","p","g">> }

\* a classifier that compares the suffix as it is written
is_video_or_imageCaseSensitive(path) ==
    IF path.suffix \in image_extensions THEN "image"
    ELSE IF path.suffix \in video_extensions THEN "video"
    ELSE "unknown"

\* is_video_or_image(path): the tag of a path, from its final suffix only
is_video_or_image(path) ==
    LET extension == Lower(path.suffix)
    IN  IF extension \in image_extensions THEN "image"
        ELSE IF extension \in video_extensions THEN "video"
        ELSE "unknown"

\* the paths the loop is fed with: Path(stem + suffix)
Paths ==
    { [stem |-> "a", suffix |-> <<".","p","n","g">>],
      [stem |-> "a", suffix |-> <<".","m","p","4">>],
      [stem |-> "b", suffix |-> <<".","M","P","4">>],
      [stem |-> "b", suffix |-> <<".","t","x","t">>],
      [stem |-> "a", suffix |-> <<>>] }

\* ------------------------------------------------- optional values (None)
NoText == [isNone |-> TRUE, lines |-> <<>>]
SomeText(ls) == [isNone |-> FALSE, lines |-> ls]

NoDir == [isNone |-> TRUE, path |-> <<>>]
SomeDir(d) == [isNone |-> FALSE, path |-> d]

NoFile == [isNone |-> TRUE, dir |-> <<>>, name |-> ""]
SomeFile(d, n) == [isNone |-> FALSE, dir |-> d, name |-> n]

\* ----------------------------------------------------------- the analyzers
\* main.py lines 12-19: the util modules the program imports
Imported == {"color_theory", "video_length", "face_keypoints", "body_keypoints",
             "sound", "depth_map", "llm_insights", "sound_extraction"}

\* the util modules with a run(path, output_dir): the imported ones and
\* util/text_boxes.py, which main.py does not import
Analyzers == Imported \cup {"text_boxes"}
FrameAnalyzers == {"body_keypoints", "face_keypoints", "text_boxes"}

\* ------------------------------------------------ what the detectors return
\* a visibility is a float; the model takes the floats n / VisUnit, each of
\* which is a binary fraction and so the exact value of a float
VisUnit == 65536

\* BodyPoseDetector.get_keypoints: a list of (landmark_id, x, y, visibility),
\* visibility n standing for n / VisUnit: 65510 is 0.99960..., 4096 is 0.0625
PoseResults == { <<>>, << <<0, 320, 110, 65510>>, <<11, 250, 240, 4096>> >> }

\* FaceMeshDetector.get_keypoints: a list of faces, each a list of (landmark_id, x, y)
FaceResults == { <<>>, << << <<1, 300, 200>>, <<4, 310, 190>> >>, << <<1, 90, 80>> >> >> }

\* OCRTextExtractor.extract_text_boxes: a list of boxes
TextResults ==
    { <<>>,
      << [text |-> "SALE", left |-> 10, top |-> 20, width |-> 80, height |-> 30,
          block_num |-> 1, par_num |-> 1, line_num |-> 1, word_num |-> 1],
         [text |-> "50%", left |-> 95, top |-> 20, width |-> 40, height |-> 30,
          block_num |-> 1, par_num |-> 1, line_num |-> 1, word_num |-> 2] >> }

\* the results of the detector of analyzer a (sound_extraction has none)
DetectorResults(a) ==
    CASE a = "body_keypoints" -> PoseResults
      [] a = "face_keypoints" -> FaceResults
      [] a = "text_boxes" -> TextResults
      [] OTHER -> {}

\* one call of the detector on a frame: it raises, or it returns a result
DetectorOutcomes(a) ==
    {[raised |-> TRUE, data |-> <<>>]} \cup
    {[raised |-> FALSE, data |-> d] : d \in DetectorResults(a)}

\* ---------------------------------------------------------- report lines
Indent(line, k) == <<line[1] + k>> \o Tail(line)
IndentAll(ls, k) == [i \in 1..Len(ls) |-> Indent(ls[i], k)]

Blank == <<0>>

Pad3(n) == IF n < 10 THEN "00" \o ToString(n)
           ELSE IF n < 100 THEN "0" \o ToString(n) ELSE ToString(n)

\* f"{visibility:.3f}" for the float v / VisUnit, v >= 0: the exact value
\* rounded to the nearest thousandth, a value halfway between two thousandths
\* to the even one
Fmt3(v) ==
    LET q == (v * 1000) \div VisUnit
        r == (v * 1000) % VisUnit
        t == IF 2 * r > VisUnit \/ (2 * r = VisUnit /\ q % 2 = 1) THEN q + 1 ELSE q
    IN  ToString(t \div 1000) \o "." \o Pad3(t % 1000)

NoFramesProcessed == << <<0, "No frames processed">> >>

\* f"Second {current_second}:" at the start of a line, and what follows it
\* on that line
SecondLine(n, rest) == <<0, "Second", ToString(n) \o ":">> \o rest

\* body_keypoints.py line 25: one landmark of an image
PoseImageLandmark(kp) ==
    <<2, "Landmark " \o ToString(kp[1]) \o ":",
      "(" \o ToString(kp[2]) \o ", " \o ToString(kp[3]) \o ")",
      "| Visibility:", Fmt3(kp[4])>>

\* body_keypoints.extract_image_keypoints: the text made of a detector result
PoseImageLines(data) ==
    IF data = <<>>
    THEN << <<0, "No pose detected">> >>
    ELSE << <<0, "Body Pose:">> >>
         \o [i \in 1..Len(data) |-> PoseImageLandmark(data[i])]

\* body_keypoints.py line 62: one landmark of a sampled frame
PoseVideoLandmark(kp) ==
    <<4, "Landmark " \o ToString(kp[1]) \o ":",
      "(" \o ToString(kp[2]) \o ", " \o ToString(kp[3]) \o ")",
      "| Visibility:", Fmt3(kp[4])>>

\* body_keypoints.extract_video_keypoints: the lines appended for one sample
PoseVideoLines(sec, data) ==
    IF data # <<>>
    THEN << SecondLine(sec, << >>), <<2, "Body Pose:">> >>
         \o [i \in 1..Len(data) |-> PoseVideoLandmark(data[i])]
    ELSE << SecondLine(sec, <<"No pose detected">>) >>

\* face_keypoints.py lines 23-26: the lines of face number idx + 1 of an image
FaceImageBlock(idx, face) ==
    << <<0, "Face " \o ToString(idx + 1) \o ":">> >>
    \o [j \in 1..Len(face) |->
          <<2, "Landmark " \o ToString(face[j][1]) \o ":",
            "(" \o ToString(face[j][2]) \o ", " \o ToString(face[j][3]) \o ")">>]

\* face_keypoints.extract_image_keypoints: the text made of a detector result
FaceImageLines(data) ==
    IF data = <<>>
    THEN << <<0, "No faces detected">> >>
    ELSE Flatten([i \in 1..Len(data) |-> FaceImageBlock(i - 1, data[i])])

\* a rendering that numbers the faces of a sampled frame like enumerate does, from 0
FaceVideoBlockFromZero(idx, face) ==
    << <<2, "Face " \o ToString(idx) \o ":">> >>
    \o [j \in 1..Len(face) |->
          <<4, "Landmark " \o ToString(face[j][1]) \o ":",
            "(" \o ToString(face[j][2]) \o ", " \o ToString(face[j][3]) \o ")">>]

\* face_keypoints.py lines 61-64: the lines of face number idx + 1 of a sampled frame
FaceVideoBlock(idx, face) ==
    << <<2, "Face " \o ToString(idx + 1) \o ":">> >>
    \o [j \in 1..Len(face) |->
          <<4, "Landmark " \o ToString(face[j][1]) \o ":",
            "(" \o ToString(face[j][2]) \o ", " \o ToString(face[j][3]) \o ")">>]

\* face_keypoints.extract_video_keypoints: the lines appended for one sample
FaceVideoLines(sec, data) ==
    IF data # <<>>
    THEN << SecondLine(sec, << >>) >>
         \o Flatten([i \in 1..Len(data) |-> FaceVideoBlock(i - 1, data[i])])
    ELSE << SecondLine(sec, <<"No faces detected">>) >>

\* text_boxes.extract_image_text_boxes: the lines of box number idx
TextImageBox(idx, box) ==
    << <<0, "Text Box " \o ToString(idx) \o ":">>,
       <<2, "Text:", box.text>>,
       <<2, "Position:", "(x=" \o ToString(box.left) \o ", y=" \o ToString(box.top) \o ")">>,
       <<2, "Size:", "(width=" \o ToString(box.width) \o ", height=" \o ToString(box.height) \o ")">>,
       <<2, "Block:", ToString(box.block_num) \o ",",
            "Paragraph:", ToString(box.par_num) \o ",",
            "Line:", ToString(box.line_num) \o ",",
            "Word:", ToString(box.word_num)>>,
       Blank >>

\* text_boxes.extract_image_text_boxes: the text made of an extractor result
TextImageLines(data) ==
    IF data = <<>>
    THEN << <<0, "No text detected">> >>
    ELSE << <<0, "Total text boxes detected:", ToString(Len(data))>>, Blank >>
         \o Flatten([i \in 1..Len(data) |-> TextImageBox(i, data[i])])

\* a video rendering of a box that leaves its size out
TextVideoBoxNoSize(idx, box) ==
    << <<2, "Text Box " \o ToString(idx) \o ":">>,
       <<4, "Text:", box.text>>,
       <<4, "Position:", "(x=" \o ToString(box.left) \o ", y=" \o ToString(box.top) \o ")">> >>

\* text_boxes.extract_video_text_boxes: the lines of box number idx
TextVideoBox(idx, box) ==
    << <<2, "Text Box " \o ToString(idx) \o ":">>,
       <<4, "Text:", box.text>>,
       <<4, "Position:", "(x=" \o ToString(box.left) \o ", y=" \o ToString(box.top) \o ")">>,
       <<4, "Size:", "(width=" \o ToString(box.width) \o ", height=" \o ToString(box.height) \o ")">> >>

\* text_boxes.extract_video_text_boxes: the lines appended for one sample
TextVideoLines(sec, data) ==
    IF data # <<>>
    THEN << SecondLine(sec, << >>),
            <<2, "Total text boxes:", ToString(Len(data))>> >>
         \o Flatten([i \in 1..Len(data) |-> TextVideoBox(i, data[i])])
         \o << Blank >>
    ELSE << SecondLine(sec, <<"No text detected">>), Blank >>

\* an image report that puts a group header above the sentinel
ImageLinesHeaded(a, data) ==
    CASE a = "body_keypoints" ->
            IF data = << >> THEN << <<0, "Body Pose:">>, <<2, "No pose detected">> >>
            ELSE PoseImageLines(data)
      [] a = "face_keypoints" ->
            IF data = << >> THEN << <<0, "Face 1:">>, <<2, "No faces detected">> >>
            ELSE FaceImageLines(data)
      [] a = "text_boxes" ->
            IF data = << >> THEN << <<0, "Total text boxes detected:", "0">>,
                                    <<0, "No text detected">> >>
            ELSE TextImageLines(data)

\* the text an image extraction returns for a detector result
ImageLines(a, data) ==
    CASE a = "body_keypoints" -> PoseImageLines(data)
      [] a = "face_keypoints" -> FaceImageLines(data)
      [] a = "text_boxes" -> TextImageLines(data)

\* a traversal that numbers its seconds from 1
VideoLinesFromOne(a, sec, data) ==
    CASE a = "body_keypoints" -> PoseVideoLines(sec + 1, data)
      [] a = "face_keypoints" -> FaceVideoLines(sec + 1, data)
      [] a = "text_boxes" -> TextVideoLines(sec + 1, data)

\* the lines a video traversal appends for the sample of second sec
VideoLines(a, sec, data) ==
    CASE a = "body_keypoints" -> PoseVideoLines(sec, data)
      [] a = "face_keypoints" -> FaceVideoLines(sec, data)
      [] a = "text_boxes" -> TextVideoLines(sec, data)

\* --------------------------------------------------------------- the state
VARIABLES
    analyzer,        \* the util module whose run() the loop calls
    output_dir,      \* the output_dir argument of run(): None or a directory
    queue,           \* files of main.print_all_media_paths, in loop order
    idx,             \* number of files whose run() call has ended
    pc,              \* position of the program
    path,            \* the path of the current run() call
    file_type,       \* its tag
    cap,             \* the cv2.VideoCapture: none, failed, open, released
    fps,             \* cap.get(CAP_PROP_FPS), a fraction num/den
    nframes,         \* number of decodable frames of the opened stream
    frame_interval,  \* int(fps)
    frame_number,
    current_second,
    result_lines,
    detector,        \* the detector object: none, open, closed
    text,            \* what the extraction returned (keypoints_text)
    ret,             \* what save_* / separate_video_audio returned
    fault,           \* the exception that left the program, or "none"
    calls,           \* log of the detector calls of the current extraction
    results,         \* the mapping the audio separator returned
    track_i,         \* position of the dynamics loop in results
    manifest_buf,    \* text written to the open manifest, not yet on disk
    dirs,            \* the directories that exist
    files,           \* the files that exist, with their content on disk
    blocked,         \* directories that cannot be created
    writes,          \* number of output files written and closed so far
    report,          \* the text format_insights_as_text returned, or None
    e,               \* the step whose exception analyze_ad_image caught, or "none"
    seconds,         \* the argument of format_duration, a fraction num/den
    formatted_duration,  \* what format_duration returned, "" before the call
    measured,        \* what the audio analyzer, analyze_dynamics, the depth map
                     \* generator or the palette extraction gave the current call
    prev             \* when run() is given the path of the call before: what that call left

vars == <<analyzer, output_dir, queue, idx, pc, path, file_type, cap, fps, nframes,
          frame_interval, frame_number, current_second, result_lines,
          detector, text, ret, fault, calls, results, track_i, manifest_buf,
          dirs, files, blocked, writes, report, e, seconds, formatted_duration,
          measured, prev>>

env == <<analyzer, output_dir, queue, blocked>>
videoLocals == <<cap, fps, nframes, frame_interval, frame_number, current_second, result_lines>>
fs == <<dirs, files>>
soundLocals == <<results, track_i, manifest_buf>>
timeLocals == <<seconds, formatted_duration>>
llmLocals == <<report, e>>

\* frame rates a stream may report: -1, 0, 1/2, 1, 3/2 and 2
FpsValues ==
    { [num |-> -1, den |-> 1], [num |-> 0, den |-> 1], [num |-> 1, den |-> 2],
      [num |-> 1, den |-> 1], [num |-> 3, den |-> 2], [num |-> 2, den |-> 1] }

\* the frame rates of the traversals of SpecSampler: 0, 1/2, 1, 3/2, 2, 5/2, 30
SamplerFps ==
    { [num |-> 0, den |-> 1], [num |-> 1, den |-> 2], [num |-> 1, den |-> 1], [num |-> 3, den |-> 2],
      [num |-> 2, den |-> 1], [num |-> 5, den |-> 2], [num |-> 30, den |-> 1] }

NoFps == [num |-> 0, den |-> 1]

\* int(fps) for fps > 0
IntOf(f) == f.num \div f.den

\* directories the caller may pass as output_dir
OutputDirs == { NoDir, SomeDir(<<"out">>) }

\* what cannot be created: nothing, or the caller's directory and data/results
BlockedChoices == { {}, { <<"out">>, <<"data", "results">> } }

Queues == UNION { [1..n -> Paths] : n \in 1..MaxQueue }

\* no call came before, or it was given another path
NoPrev == [same |-> FALSE, calls |-> << >>, text |-> NoText, results |-> << >>,
           report |-> NoText, measured |-> << >>, seconds |-> NoFps, files |-> << >>]

\* the program before the loop of main.py starts: nothing processed, nothing
\* on disk
StartState ==
    /\ idx = 0
    /\ pc = "loop"
    /\ path = [stem |-> "", suffix |-> <<>>]
    /\ file_type = "unknown"
    /\ cap = "none"
    /\ fps = NoFps
    /\ nframes = 0
    /\ frame_interval = 0
    /\ frame_number = 0
    /\ current_second = 0
    /\ result_lines = <<>>
    /\ detector = "none"
    /\ text = NoText
    /\ ret = NoFile
    /\ fault = "none"
    /\ calls = <<>>
    /\ results = <<>>
    /\ track_i = 0
    /\ manifest_buf = <<>>
    /\ dirs = {}
    /\ files = << >>
    /\ writes = 0
    /\ report = NoText
    /\ e = "none"
    /\ seconds = NoFps
    /\ formatted_duration = ""
    /\ measured = << >>
    /\ prev = NoPrev

Init ==
    /\ analyzer \in Analyzers
    /\ output_dir \in OutputDirs
    /\ queue \in Queues
    /\ blocked \in BlockedChoices
    /\ StartState

\* --------------------------------------------------------- the filesystem
\* the ancestors of directory d, d included
Ancestors(d) == { SubSeq(d, 1, n) : n \in 1..Len(d) }

\* a mkdir without exist_ok: it also raises when d is there already
MkdirRaisesExisting(d) == d \in dirs \/ Ancestors(d) \cap blocked # {}

\* Path.mkdir(parents=True, exist_ok=True) raises when a component of d
\* cannot be created
MkdirRaises(d) == Ancestors(d) \cap blocked # {}

\* the directories after a successful mkdir(parents=True, exist_ok=True)
Mkdir(d) == dirs \cup Ancestors(d)

\* the files after open(f, 'a'), write(content), close
WriteFileAppend(f, content) ==
    (f :> ((IF f \in DOMAIN files THEN files[f] ELSE << >>) \o content)) @@ files

\* the files after open(f, 'w'), write(content), close
WriteFile(f, content) == (f :> content) @@ files

\* the last component of the default directory of each module: sound.py
\* line 19, depth_map.py line 29, color_theory.py line 156; the other
\* modules use their own name
Folder(name) ==
    CASE name = "sound" -> "audio_analysis"
      [] name = "depth_map" -> "depth_maps"
      [] name = "color_theory" -> "color_palettes"
      [] OTHER -> name

\* script_dir / "data" / "results" / folder
DefaultDir(name) == <<"data", "results", Folder(name)>>

\* an output name that keeps the suffix of the input: f"{path.name}.txt"
OutputNameKeepsSuffix(p) == p.stem \o Str(p.suffix) \o ".txt"

\* f"{path.stem}.txt"
OutputName(p) == p.stem \o ".txt"

\* sound_extraction.run line 88: `if file_type == 'video'`
SoundRuns(tag) == tag = "video"

\* a run() that hands every medium to analyze_ad_image
InsightsRunsOnMedia(tag) == tag \in {"image", "video"}

\* llm_insights.run line 40: `if file_type == 'image'`
InsightsRuns(tag) == tag = "image"

\* the position run() of module a goes to for a tag, "loop" when it returns
\* at once: every run() tests the tag for the one or two media it handles
Dispatch(a, tag) ==
    CASE a = "sound_extraction" -> IF SoundRuns(tag) THEN "separate" ELSE "loop"
      [] a = "llm_insights" -> IF InsightsRuns(tag) THEN "analyze" ELSE "loop"
      [] a = "video_length" -> IF tag = "video" THEN "length" ELSE "loop"
      [] a = "sound" -> IF tag = "video" THEN "audio" ELSE "loop"
      [] a = "depth_map" -> IF tag = "image" THEN "depth" ELSE "loop"
      [] a = "color_theory" -> IF tag = "image" THEN "palette" ELSE "loop"
      [] OTHER -> IF tag = "image" THEN "image"
                  ELSE IF tag = "video" THEN "video" ELSE "loop"

\* -------------------------------------------------- main.print_all_media_paths
\* one iteration of the loop starts: run(file_path) classifies the file and
\* takes the image path, the video path, or returns at once
StartFile ==
    /\ pc = "loop"
    /\ idx < Len(queue)
    /\ path' = queue[idx + 1]
    /\ file_type' = is_video_or_image(queue[idx + 1])
    /\ cap' = "none"
    /\ fps' = NoFps
    /\ nframes' = 0
    /\ frame_interval' = 0
    /\ frame_number' = 0
    /\ current_second' = 0
    /\ result_lines' = <<>>
    /\ detector' = "none"
    /\ text' = NoText
    /\ ret' = NoFile
    /\ calls' = <<>>
    /\ results' = <<>>
    /\ track_i' = 0
    /\ manifest_buf' = <<>>
    /\ report' = NoText
    /\ e' = "none"
    /\ seconds' = NoFps
    /\ formatted_duration' = ""
    /\ measured' = << >>
    /\ prev' = IF idx >= 1 /\ queue[idx + 1] = queue[idx]
               THEN [same |-> TRUE, calls |-> calls, text |-> text, results |-> results,
                     report |-> report, measured |-> measured, seconds |-> seconds,
                     files |-> files]
               ELSE NoPrev
    /\ pc' = Dispatch(analyzer, file_type')
    /\ idx' = IF pc' = "loop" THEN idx + 1 ELSE idx
    /\ UNCHANGED <<env, fault, fs, writes>>

\* the detector after its constructor: BodyPoseDetector and FaceMeshDetector
\* are opened and have a close(); OCRTextExtractor is built and never closed
Acquired(a) == IF a = "text_boxes" THEN "unmanaged" ELSE "open"

\* the detector after detector.close(), which text_boxes.py does not call
Closed(a) == IF a = "text_boxes" THEN "unmanaged" ELSE "closed"

\* extract_image_keypoints / extract_image_text_boxes
ExtractImage(readable, outcome) ==
    /\ pc = "image"
    /\ IF ~readable
       THEN /\ text' = NoText
            /\ pc' = "save"
            /\ UNCHANGED <<detector, calls, fault>>
       ELSE /\ calls' = Append(calls, [frame |-> 0, second |-> 0, data |-> outcome.data])
            /\ IF outcome.raised
               THEN /\ detector' = Acquired(analyzer)
                    /\ fault' = "detector"
                    /\ pc' = "raised"
                    /\ text' = text
               ELSE /\ detector' = Closed(analyzer)
                    /\ text' = SomeText(ImageLines(analyzer, outcome.data))
                    /\ pc' = "save"
                    /\ fault' = fault
    /\ UNCHANGED <<env, prev, measured, timeLocals, llmLocals, writes, idx, path, file_type, videoLocals, ret, soundLocals, fs>>

\* extract_video_*: the stream is opened and its frame rate read
\* a guard that lets a frame rate of 0 through
BadFpsStrict(rate) == rate.num < 0

\* the guard of line 38: fps <= 0
BadFps(rate) == rate.num <= 0

OpenVideo(opened, rate, n) ==
    /\ pc = "video"
    /\ IF ~opened
       THEN /\ cap' = "failed"
            /\ text' = NoText
            /\ pc' = "save"
            /\ UNCHANGED <<fps, nframes, frame_interval, detector>>
       ELSE /\ fps' = rate
            /\ nframes' = n
            /\ IF BadFps(rate)
               THEN /\ cap' = "released"
                    /\ text' = NoText
                    /\ pc' = "save"
                    /\ UNCHANGED <<frame_interval, detector>>
               ELSE /\ cap' = "open"
                    /\ detector' = Acquired(analyzer)
                    /\ frame_interval' = IntOf(rate)
                    /\ pc' = "frames"
                    /\ text' = text
    /\ UNCHANGED <<env, prev, measured, timeLocals, llmLocals, writes, idx, path, file_type, frame_number, current_second,
                   result_lines, ret, fault, calls, soundLocals, fs>>

\* a sampler that takes the last frame of each interval instead of the first
SampledLate(n, interval) == n % interval = interval - 1

\* the test of line 54: is the frame sampled
Sampled(n, interval) == n % interval = 0

\* a traversal that keeps the result of its first detector call for the
\* frames sampled later
FrameDataFirst(cs, outcome) == IF cs = << >> THEN outcome.data ELSE cs[1].data

\* keypoints_data / text_boxes of a sampled frame: what the detector call
\* of this turn of the loop returned
FrameData(cs, outcome) == outcome.data

\* `frame_number += 1` at the end of a turn of the loop
Advance(n) == n + 1

\* cap.read() yields a frame as long as the stream has one left
MoreFrames == frame_number < nframes

\* one turn of the while loop in which cap.read() yields a frame
ProcessFrame(outcome) ==
    /\ pc = "frames"
    /\ MoreFrames
    /\ IF frame_interval = 0
       THEN \* frame_number % 0 raises ZeroDivisionError
            /\ fault' = "zerodivision"
            /\ pc' = "raised"
            /\ UNCHANGED <<frame_number, current_second, result_lines, calls>>
       ELSE IF Sampled(frame_number, frame_interval)
       THEN /\ calls' = Append(calls, [frame |-> frame_number,
                                       second |-> current_second,
                                       data |-> outcome.data])
            /\ IF outcome.raised
               THEN /\ fault' = "detector"
                    /\ pc' = "raised"
                    /\ UNCHANGED <<frame_number, current_second, result_lines>>
               ELSE /\ result_lines' = result_lines
                                        \o VideoLines(analyzer, current_second,
                                                      FrameData(calls, outcome))
                    /\ current_second' = current_second + 1
                    /\ frame_number' = Advance(frame_number)
                    /\ UNCHANGED <<fault, pc>>
       ELSE /\ frame_number' = Advance(frame_number)
            /\ UNCHANGED <<current_second, result_lines, calls, fault, pc>>
    /\ UNCHANGED <<env, prev, measured, timeLocals, llmLocals, writes, idx, path, file_type, cap, fps, nframes, frame_interval,
                   detector, text, ret, soundLocals, fs>>

\* a traversal that returns its lines as they are, also when there are none
VideoTextRaw(ls) == ls

\* the text a traversal returns
VideoText(ls) == IF ls = <<>> THEN NoFramesProcessed ELSE ls

\* cap.read() yields no frame: the loop ends and the traversal returns
EndOfStream ==
    /\ pc = "frames"
    /\ ~MoreFrames
    /\ cap' = "released"
    /\ detector' = Closed(analyzer)
    /\ text' = SomeText(VideoText(result_lines))
    /\ pc' = "save"
    /\ UNCHANGED <<env, prev, measured, timeLocals, llmLocals, writes, idx, path, file_type, fps, nframes, frame_interval, frame_number,
                   current_second, result_lines, ret, fault, calls, soundLocals, fs>>

\* a resolver that gives every report a directory of its own, numbered by
\* the reports written so far
ResolveDirPerRun(a, dir) ==
    (IF dir.isNone THEN DefaultDir(a) ELSE dir.path) \o <<ToString(writes)>>

\* the directory save_* writes to
ResolveDir(a, dir) == IF dir.isNone THEN DefaultDir(a) ELSE dir.path

\* a save that makes its directory before it looks at the text
DirsWithoutResultMade(d) == Mkdir(d)

\* the directories after `if keypoints_text is None: return None`, which
\* comes before output_dir.mkdir
DirsWithoutResult(d) == dirs

\* save_keypoints / save_text_boxes after the extraction returned
Save ==
    /\ pc = "save"
    /\ IF text.isNone
       THEN /\ ret' = NoFile
            /\ pc' = "loop"
            /\ idx' = idx + 1
            /\ dirs' = DirsWithoutResult(ResolveDir(analyzer, output_dir))
            /\ UNCHANGED <<fault, files, writes>>
       ELSE LET dir == ResolveDir(analyzer, output_dir)
            IN  IF MkdirRaises(dir)
                THEN /\ fault' = "mkdir"
                     /\ pc' = "raised"
                     /\ UNCHANGED <<ret, idx, fs, writes>>
                ELSE /\ dirs' = Mkdir(dir)
                     /\ files' = WriteFile(SomeFile(dir, OutputName(path)), text.lines)
                     /\ writes' = writes + 1
                     /\ ret' = SomeFile(dir, OutputName(path))
                     /\ pc' = "loop"
                     /\ idx' = idx + 1
                     /\ fault' = fault
    /\ UNCHANGED <<env, prev, measured, timeLocals, llmLocals, path, file_type, videoLocals, detector, text, calls, soundLocals>>

\* ------------------------------------------------------ sound_extraction.py
\* str.upper() on one character
UpperChar(c) ==
    IF \E i \in 1..26 : LowerAlpha[i] = c
    THEN UpperAlpha[CHOOSE i \in 1..26 : LowerAlpha[i] = c]
    ELSE c

\* str.capitalize(): first character upper-cased, the others lower-cased
Capitalize(cs) ==
    IF cs = <<>> THEN <<>> ELSE <<UpperChar(Head(cs))>> \o Lower(Tail(cs))

RECURSIVE Repeat(_, _)
Repeat(c, n) == IF n = 0 THEN "" ELSE c \o Repeat(c, n - 1)

\* f"{'='*60}"
Separator == Repeat("=", 60)

Pad2(n) == IF n < 10 THEN "0" \o ToString(n) ELSE ToString(n)

\* f"{h/100:.2f}" for a value given in hundredths
Fmt2(h) == IF h < 0 THEN "-" \o ToString((-h) \div 100) \o "." \o Pad2((-h) % 100)
           ELSE ToString(h \div 100) \o "." \o Pad2(h % 100)

\* ------------------------------------------------------- IEEE 754 doubles
\* Python's float is the IEEE 754 double, and every operation on it gives
\* the exact result rounded to 53 significant bits, a tie to the even one.
\* The 53 bits of a double and the products of two doubles exceed the 32
\* bits of an integer of TLC, so a natural number is kept as the sequence of
\* its digits to the base 2^14, lowest first, the highest not 0 (0 is << >>).
Limb == 14
Base == 16384
Pow2(k) == <<1, 2, 4, 8, 16, 32, 64, 128, 256, 512, 1024, 2048, 4096, 8192, 16384>>[k + 1]

\* the digit of a that counts Base^(i-1)
Dig(a, i) == IF i >= 1 /\ i <= Len(a) THEN a[i] ELSE 0

\* the digits without zeros at their high end
Strip(a) ==
    SubSeq(a, 1, IF \A i \in 1..Len(a) : a[i] = 0 THEN 0
                 ELSE CHOOSE i \in 1..Len(a) :
                         a[i] # 0 /\ \A j \in (i + 1)..Len(a) : a[j] = 0)

\* an integer 0 <= k < 2^31 as digits, and back
NOf(k) == Strip(<<k % Base, (k \div Base) % Base, k \div (Base * Base)>>)
NVal(a) == Dig(a, 1) + Base * Dig(a, 2) + Base * Base * Dig(a, 3)

\* a + b, for digit sequences whose digits may be as large as 2 * Base - 2:
\* a carry enters place i when a place below makes one and all places
\* between pass it on
NAdd(a, b) ==
    LET n == (IF Len(a) > Len(b) THEN Len(a) ELSE Len(b)) + 1
        s == [i \in 1..n |-> Dig(a, i) + Dig(b, i)]
        carry(i) == \E j \in 1..(i - 1) :
                        s[j] >= Base /\ \A k \in (j + 1)..(i - 1) : s[k] = Base - 1
    IN  Strip([i \in 1..n |-> (s[i] + (IF carry(i) THEN 1 ELSE 0)) % Base])

\* a - b, for a >= b
NSub(a, b) ==
    LET borrow(i) == \E j \in 1..(i - 1) :
                        /\ a[j] < Dig(b, j)
                        /\ \A k \in (j + 1)..(i - 1) : a[k] = Dig(b, k)
    IN  Strip([i \in 1..Len(a) |->
                 (a[i] - Dig(b, i) - (IF borrow(i) THEN 1 ELSE 0) + Base) % Base])

\* a < b
NLess(a, b) ==
    IF Len(a) # Len(b) THEN Len(a) < Len(b)
    ELSE \E i \in 1..Len(a) :
            /\ a[i] < b[i]
            /\ \A j \in (i + 1)..Len(a) : a[j] = b[j]

\* a * c for one digit c
NMulSmall(a, c) ==
    NAdd([i \in 1..Len(a) |-> (a[i] * c) % Base],
         <<0>> \o [i \in 1..Len(a) |-> (a[i] * c) \div Base])

\* a * Base^k
ShlDigits(a, k) == IF a = << >> THEN << >> ELSE [i \in 1..k |-> 0] \o a

RECURSIVE NMul(_, _)
NMul(a, b) ==
    IF b = << >> THEN << >>
    ELSE NAdd(NMulSmall(a, Head(b)), ShlDigits(NMul(a, Tail(b)), 1))

\* a * 2^k
Shl(a, k) == NMulSmall(ShlDigits(a, k \div Limb), Pow2(k % Limb))

\* a \div 2^k
Shr(a, k) ==
    LET b == SubSeq(a, k \div Limb + 1, Len(a))
        s == k % Limb
    IN  Strip([i \in 1..Len(b) |->
                 b[i] \div Pow2(s)
                 + (IF i < Len(b) THEN (b[i + 1] % Pow2(s)) * Pow2(Limb - s) ELSE 0)])

\* the bit of a that counts 2^(i-1)
Bit(a, i) == (Dig(a, (i - 1) \div Limb + 1) \div Pow2((i - 1) % Limb)) % 2

\* the number of bits of a
BitLen(a) ==
    IF a = << >> THEN 0
    ELSE Limb * (Len(a) - 1)
         + (CHOOSE k \in 1..Limb : Pow2(k - 1) <= a[Len(a)] /\ a[Len(a)] < Pow2(k))

\* long division by b, whose highest digit is at least Base / 2: the digits
\* i, i-1, ..., 1 of a are still to come, r < b is the remainder so far and q
\* the quotient so far.  The next digit of the quotient is at most the
\* quotient of the two highest digits of the remainder by the highest digit
\* of b, and at most 2 less.
RECURSIVE NDivStep(_, _, _, _, _)
NDivStep(a, i, b, r, q) ==
    IF i = 0 THEN [quot |-> Strip(q), exact |-> r = << >>]
    ELSE LET n == Len(b)
             r2 == Strip(<<a[i]>> \o r)
             est == (Dig(r2, n + 1) * Base + Dig(r2, n)) \div b[n]
             qh == IF est > Base - 1 THEN Base - 1 ELSE est
             d == IF qh = 0 \/ ~NLess(r2, NMulSmall(b, qh)) THEN qh
                  ELSE IF ~NLess(r2, NMulSmall(b, qh - 1)) THEN qh - 1
                  ELSE qh - 2
             rest == NSub(r2, NMulSmall(b, d))
         IN  IF rest = << >> /\ \A j \in 1..(i - 1) : a[j] = 0
             THEN [quot |-> Strip([j \in 1..(i - 1) |-> 0] \o <<d>> \o q),
                   exact |-> TRUE]
             ELSE NDivStep(a, i - 1, b, rest, <<d>> \o q)

\* a \div b, and whether b divides a, for b > 0: both are first doubled
\* until the highest digit of b is at least Base / 2, and the digits of a
\* above the length of b start as the remainder
NDivMod(a, b) ==
    LET s == Limb * Len(b) - BitLen(b)
        an == Shl(a, s)
        bn == Shl(b, s)
        k == Len(an) - Len(bn) + 1
    IN  IF NLess(a, b) THEN [quot |-> << >>, exact |-> a = << >>]
        ELSE NDivStep(an, k, bn, SubSeq(an, k + 1, Len(an)), << >>)

\* Newton's steps from x, which is at least the root of a, down to the
\* whole part of that root
RECURSIVE NSqrtStep(_, _)
NSqrtStep(a, x) ==
    LET y == Shr(NAdd(x, NDivMod(a, x).quot), 1)
    IN  IF NLess(y, x) THEN NSqrtStep(a, y) ELSE x

\* the whole part of the square root of a; Newton's steps start above the
\* root, at the root of the one or two highest digits of a, rounded up
NSqrt(a) ==
    LET low == 2 * ((Len(a) - 1) \div 2)
        top == NVal(SubSeq(a, low + 1, Len(a)))
        s == CHOOSE x \in 1..Base : (x - 1) * (x - 1) <= top /\ top < x * x
    IN  IF a = << >> THEN << >> ELSE NSqrtStep(a, ShlDigits(NOf(s), low \div 2))

\* a double: 0 (m = << >>), or (-1)^neg * m * 2^e with m of 53 bits
FZero == [neg |-> FALSE, m |-> << >>, e |-> 0]

\* (-1)^neg * (M + s) * 2^ex rounded to 53 bits, where 0 < s < 1 when sticky
\* and s = 0 otherwise
Rnd(neg, M, ex, sticky) ==
    LET d == BitLen(M) - 53
    IN  IF M = << >> THEN FZero
        ELSE IF d <= 0 THEN [neg |-> neg, m |-> Shl(M, -d), e |-> ex + d]
        ELSE LET kept == Shr(M, d)
                 st == sticky \/ \E i \in 1..(d - 1) : Bit(M, i) = 1
                 up == Bit(M, d) = 1 /\ (st \/ Bit(kept, 1) = 1)
                 k2 == IF up THEN NAdd(kept, <<1>>) ELSE kept
             IN  IF BitLen(k2) = 54 THEN [neg |-> neg, m |-> Shr(k2, 1), e |-> ex + d + 1]
                 ELSE [neg |-> neg, m |-> k2, e |-> ex + d]

\* float(n) for an integer n
FInt(n) == Rnd(n < 0, NOf(IF n < 0 THEN -n ELSE n), 0, FALSE)

FNeg(a) == IF a.m = << >> THEN a ELSE [a EXCEPT !.neg = ~a.neg]

\* a + b
FAdd(a, b) ==
    IF a.m = << >> THEN b
    ELSE IF b.m = << >> THEN a
    ELSE LET em == IF a.e < b.e THEN a.e ELSE b.e
             A == Shl(a.m, a.e - em)
             B == Shl(b.m, b.e - em)
         IN  IF a.neg = b.neg THEN Rnd(a.neg, NAdd(A, B), em, FALSE)
             ELSE IF A = B THEN FZero
             ELSE IF NLess(B, A) THEN Rnd(a.neg, NSub(A, B), em, FALSE)
             ELSE Rnd(b.neg, NSub(B, A), em, FALSE)

\* a - b
FSub(a, b) == FAdd(a, FNeg(b))

\* a * b
FMul(a, b) ==
    IF a.m = << >> \/ b.m = << >> THEN FZero
    ELSE Rnd(a.neg # b.neg, NMul(a.m, b.m), a.e + b.e, FALSE)

\* a / b, for b # 0
FDiv(a, b) ==
    IF a.m = << >> THEN FZero
    ELSE LET q == NDivMod(Shl(a.m, 56), b.m)
         IN  Rnd(a.neg # b.neg, q.quot, a.e - b.e - 56, ~q.exact)

\* math.sqrt(a), for a >= 0
FSqrt(a) ==
    IF a.m = << >> THEN FZero
    ELSE LET k == IF (a.e - 58) % 2 = 0 THEN 58 ELSE 59
             M == Shl(a.m, k)
             root == NSqrt(M)
         IN  Rnd(FALSE, root, (a.e - k) \div 2, NMul(root, root) # M)

\* a < b
FLess(a, b) == LET d == FSub(a, b) IN d.m # << >> /\ d.neg

\* int(a), for a >= 0
FFloor(a) ==
    IF a.m = << >> THEN 0
    ELSE IF a.e >= 0 THEN NVal(Shl(a.m, a.e))
    ELSE NVal(Shr(a.m, -a.e))

\* n / t for integers 0 <= n, 0 < t
FRatio(n, t) == FDiv(FInt(n), FInt(t))

\* f"{a:.2f}": the decimal with two places that is nearest to a, a tie to
\* the even one; the sign of a is written also when the digits are all 0
FmtF2(a) ==
    IF a.m = << >> THEN "0.00"
    ELSE LET z == NMulSmall(a.m, 100)
             f == -a.e
             whole == IF f <= 0 THEN NVal(Shl(z, -f)) ELSE NVal(Shr(z, f))
             half == f >= 1 /\ Bit(z, f) = 1
             rest == \E i \in 1..(f - 1) : Bit(z, i) = 1
             h == IF half /\ (rest \/ whole % 2 = 1) THEN whole + 1 ELSE whole
         IN  (IF a.neg THEN "-" ELSE "") \o ToString(h \div 100) \o "." \o Pad2(h % 100)


\* st_size: a number of bytes, kept as whole MiB and the bytes beyond them
\* (mib * 1024 * 1024 + rem, 0 <= rem < 1024 * 1024)
Size(mib, rem) == [mib |-> mib, rem |-> rem]

\* a rendering that cuts the size off after the second decimal
FmtMBFloor(size) ==
    Fmt2(size.mib * 100 + (size.rem * 100) \div (1024 * 1024))

\* f"{st_size / (1024 * 1024):.2f}": the quotient is exact, the rendering
\* rounds it to the nearest hundredth, ties to even
FmtMB(size) ==
    LET q == size.mib * 100 + (size.rem * 100) \div (1024 * 1024)
        r == (size.rem * 100) % (1024 * 1024)
        h == IF r > 524288 \/ (r = 524288 /\ q % 2 = 1) THEN q + 1 ELSE q
    IN  Fmt2(h)

\* the mappings the separator may return: name -> track file, in dict order
TrackMaps ==
    { << >>,
      << [name |-> <<"v","o","c","a","l","s">>, file |-> "vocals.wav",
          exists |-> TRUE, size |-> Size(1, 0)] >>,
      << [name |-> <<"d","r","u","m","s">>, file |-> "drums.wav",
          exists |-> FALSE, size |-> Size(0, 0)],
         [name |-> <<"b","a","s","s">>, file |-> "bass.wav",
          exists |-> TRUE, size |-> Size(0, 131072)] >> }

\* one call of separate_video_audio: AudioSeparator() raises; or the
\* separator raises, returns None, or returns a mapping; after a mapping,
\* open(output_file, 'w') raises or opens
SeparatorOutcomes ==
    { [kind |-> k, tracks |-> << >>] : k \in {"ctor_raised", "raised", "none"} }
    \cup { [kind |-> k, tracks |-> t] : k \in {"tracks", "open_raised"}, t \in TrackMaps }

\* a level in dB: -inf, or a double
NegInf == [inf |-> TRUE, v |-> FZero]
Level(v) == [inf |-> FALSE, v |-> v]

\* f"{level:.2f}"
FmtLevel(l) == IF l.inf THEN "-inf" ELSE FmtF2(l.v)

\* the double nearest to n / d: what a decimal such as -20.1245 denotes
Dec(n, d) == IF n < 0 THEN FNeg(FRatio(-n, d)) ELSE FRatio(n, d)

\* what lines 17-18 compute of a track: is rms above 0, is peak above 0, and
\* where they are, the doubles 20 * log10 of each and peak / rms.  The
\* tracks: one with sound (rms -20.1245 dB, peak -3.0085 dB); one that nearly
\* reaches full scale (peak -0.0008 dB); digital silence (also a stereo
\* track whose channels cancel); samples so small that their squares are 0
\* while the peak is not (1e-200, a peak of -4000 dB)
Signals ==
    { [rms_pos |-> TRUE, peak_pos |-> TRUE, rms_db |-> Dec(-201245, 10000),
       peak_db |-> Dec(-30085, 10000), ratio |-> Dec(71746, 10000)],
      [rms_pos |-> TRUE, peak_pos |-> TRUE, rms_db |-> Dec(-30111, 10000),
       peak_db |-> Dec(-8, 10000), ratio |-> Dec(14141, 10000)],
      [rms_pos |-> FALSE, peak_pos |-> FALSE, rms_db |-> FZero, peak_db |-> FZero,
       ratio |-> FZero],
      [rms_pos |-> FALSE, peak_pos |-> TRUE, rms_db |-> FZero, peak_db |-> Dec(-4000, 1),
       ratio |-> FZero] }

\* analyze_dynamics lines 20-35: the levels of a track
analyze_dynamics(sig) ==
    LET crest_factor == IF sig.peak_pos THEN (IF sig.rms_pos THEN sig.ratio ELSE FZero)
                        ELSE FZero
        rms_db == IF sig.rms_pos THEN Level(sig.rms_db) ELSE NegInf
        peak_db == IF sig.peak_pos THEN Level(sig.peak_db) ELSE NegInf
        dynamic_range == IF ~rms_db.inf THEN FSub(peak_db.v, rms_db.v) ELSE FZero
    IN  [raised |-> FALSE, rms_db |-> rms_db, peak_db |-> peak_db,
         dynamic_range_db |-> dynamic_range, crest_factor |-> crest_factor]

\* analyze_dynamics raised: sf.read on a file that is no audio, np.max of no
\* samples
DynamicsRaised ==
    [raised |-> TRUE, rms_db |-> NegInf, peak_db |-> NegInf, dynamic_range_db |-> FZero,
     crest_factor |-> FZero]

\* one call of analyze_dynamics(track_path): it raises, or returns the levels
\* of the track
DynamicsOutcomes == {DynamicsRaised} \cup { analyze_dynamics(sig) : sig \in Signals }

\* lines 55-56 of the manifest
ManifestHeader(p) ==
    << <<0, "Audio Separation Results for:", p.stem \o Str(p.suffix)>>,
       <<0, Separator>>, Blank >>

\* a track list that has a line for every entry of the mapping
RECURSIVE TrackLinesAll(_)
TrackLinesAll(tracks) ==
    IF tracks = << >> THEN << >>
    ELSE << <<0, Str(Capitalize(Head(tracks).name)) \o ":", Head(tracks).file,
              "(" \o FmtMB(Head(tracks).size) \o " MB)">> >>
         \o TrackLinesAll(Tail(tracks))

\* lines 58-61: one line for each track whose file exists
RECURSIVE TrackLines(_)
TrackLines(tracks) ==
    IF tracks = << >> THEN << >>
    ELSE (IF Head(tracks).exists
          THEN << <<0, Str(Capitalize(Head(tracks).name)) \o ":", Head(tracks).file,
                    "(" \o FmtMB(Head(tracks).size) \o " MB)">> >>
          ELSE << >>)
         \o TrackLines(Tail(tracks))

\* lines 63-65
DynamicsHeader ==
    << Blank, <<0, Separator>>, <<0, "DYNAMICS ANALYSIS">>, <<0, Separator>>, Blank >>

\* lines 70-75: the block of one analysed track
DynamicsLines(track, d) ==
    << <<0, Str(Capitalize(track.name)) \o ":">>,
       <<2, "RMS Level:", FmtLevel(d.rms_db), "dB">>,
       <<2, "Peak Level:", FmtLevel(d.peak_db), "dB">>,
       <<2, "Dynamic Range:", FmtF2(d.dynamic_range_db), "dB">>,
       <<2, "Crest Factor:", FmtF2(d.crest_factor)>>,
       Blank >>

\* a footer that counts the listed tracks only
ManifestFooterListed(tracks) ==
    << <<0, Separator>>,
       <<0, "Total tracks:", ToString(Len(SelectSeq(tracks, LAMBDA t : t.exists)))>> >>

\* lines 77-78
ManifestFooter(tracks) ==
    << <<0, Separator>>, <<0, "Total tracks:", ToString(Len(tracks))>> >>

\* a default directory that all videos share
SoundDirShared(dir, p) ==
    IF dir.isNone THEN DefaultDir("sound_extraction") ELSE dir.path

\* the directory separate_video_audio writes to
SoundDir(dir, p) ==
    IF dir.isNone THEN DefaultDir("sound_extraction") \o <<p.stem>> ELSE dir.path

\* a call that opens the manifest before it separates the audio
FilesBeforeOpenTruncated(dir) == WriteFile(SomeFile(dir, "manifest.txt"), << >>)

\* the files while lines 47-52 run: the manifest is opened at line 54 only
FilesBeforeOpen(dir) == files

\* a call without the guard of line 49
ReturnsEarlyNever(kind) == FALSE

\* lines 49-50: `if results is None: return None`
ReturnsEarly(kind) == kind = "none"

\* separate_video_audio up to the first loop over the tracks: the separator
\* is built, the directory made, the audio separated, the manifest opened
\* (which empties it on disk) and its header and track list written
SeparateVideoAudio(outcome) ==
    /\ pc = "separate"
    /\ LET dir == SoundDir(output_dir, path)
       IN  IF outcome.kind = "ctor_raised"
           THEN /\ fault' = "constructor"
                /\ pc' = "raised"
                /\ UNCHANGED <<idx, ret, soundLocals, fs>>
           ELSE IF MkdirRaises(dir)
           THEN /\ fault' = "mkdir"
                /\ pc' = "raised"
                /\ UNCHANGED <<idx, ret, soundLocals, fs>>
           ELSE /\ dirs' = Mkdir(dir)
                /\ IF outcome.kind = "raised"
                   THEN /\ fault' = "separator"
                        /\ pc' = "raised"
                        /\ files' = FilesBeforeOpen(dir)
                        /\ UNCHANGED <<idx, ret, soundLocals>>
                   ELSE IF ReturnsEarly(outcome.kind)
                   THEN /\ ret' = NoFile
                        /\ pc' = "loop"
                        /\ idx' = idx + 1
                        /\ files' = FilesBeforeOpen(dir)
                        /\ UNCHANGED <<fault, soundLocals>>
                   ELSE IF outcome.kind = "open_raised"
                   THEN /\ results' = outcome.tracks
                        /\ fault' = "open"
                        /\ pc' = "raised"
                        /\ UNCHANGED <<idx, ret, track_i, manifest_buf, files>>
                   ELSE /\ results' = outcome.tracks
                        /\ files' = WriteFile(SomeFile(dir, "manifest.txt"), << >>)
                        /\ manifest_buf' = ManifestHeader(path)
                                            \o TrackLines(outcome.tracks)
                                            \o DynamicsHeader
                        /\ track_i' = 1
                        /\ pc' = "dynamics"
                        /\ UNCHANGED <<fault, idx, ret>>
    /\ UNCHANGED <<env, prev, measured, timeLocals, llmLocals, writes, path, file_type, videoLocals, detector, text, calls>>

\* one turn of the second loop over the tracks; when analyze_dynamics raises,
\* leaving the with block closes the manifest with what was written so far
AnalyzeTrack(outcome) ==
    /\ pc = "dynamics"
    /\ track_i <= Len(results)
    /\ IF ~results[track_i].exists
       THEN /\ track_i' = track_i + 1
            /\ UNCHANGED <<manifest_buf, files, fault, pc>>
       ELSE IF outcome.raised
       THEN /\ files' = WriteFile(SomeFile(SoundDir(output_dir, path), "manifest.txt"),
                                  manifest_buf)
            /\ fault' = "dynamics"
            /\ pc' = "raised"
            /\ UNCHANGED <<track_i, manifest_buf>>
       ELSE /\ manifest_buf' = manifest_buf \o DynamicsLines(results[track_i], outcome)
            /\ track_i' = track_i + 1
            /\ UNCHANGED <<files, fault, pc>>
    /\ measured' = IF results[track_i].exists THEN Append(measured, outcome) ELSE measured
    /\ UNCHANGED <<env, prev, timeLocals, llmLocals, writes, idx, path, file_type, videoLocals, detector, text, ret,
                   calls, results, dirs>>

\* the footer is written, the manifest closed and its path returned
FinishManifest ==
    /\ pc = "dynamics"
    /\ track_i > Len(results)
    /\ files' = WriteFile(SomeFile(SoundDir(output_dir, path), "manifest.txt"),
                          manifest_buf \o ManifestFooter(results))
    /\ ret' = SomeFile(SoundDir(output_dir, path), "manifest.txt")
    /\ writes' = writes + 1
    /\ pc' = "loop"
    /\ idx' = idx + 1
    /\ UNCHANGED <<env, prev, measured, timeLocals, llmLocals, path, file_type, videoLocals, detector, text, fault,
                   calls, soundLocals, dirs>>

\* --------------------------------------------------------- llm_insights.py
\* the texts format_insights_as_text may return
LlmReports ==
    { << <<0, "Test Report Content">> >>,
      << <<0, "ADVERTISEMENT INSIGHTS">>, <<0, "Text found:", "SALE 50%">> >> }

\* the steps of the try block, in their order
LlmSteps == <<"analyzer", "analysis", "format", "open", "write">>

\* one call of analyze_ad_image: a step of the try block raises, or none
\* does; report is the text the formatter returns when it is reached
LlmOutcomes ==
    { [raised |-> r, report |-> t] : r \in Range(LlmSteps) \cup {"none"}, t \in LlmReports }

\* an except clause that only guards the calls of the analyzer
CaughtBeforeOpen(step) == step \in {"analyzer", "analysis", "format"}

\* lines 20 and 30: the steps whose exception `except Exception` catches
Caught(step) == step \in Range(LlmSteps)

\* analyze_ad_image(image_path, output_dir)
AnalyzeAdImage(outcome) ==
    /\ pc = "analyze"
    /\ LET dir == ResolveDir("llm_insights", output_dir)
           output_file == SomeFile(dir, OutputName(path))
           formatted == outcome.raised \notin {"analyzer", "analysis", "format"}
       IN  IF MkdirRaises(dir)
           THEN /\ fault' = "mkdir"
                /\ pc' = "raised"
                /\ UNCHANGED <<idx, ret, llmLocals, fs, writes>>
           ELSE /\ dirs' = Mkdir(dir)
                /\ writes' = IF outcome.raised = "none" THEN writes + 1 ELSE writes
                /\ report' = IF formatted THEN SomeText(outcome.report) ELSE NoText
                /\ files' = IF outcome.raised = "none"
                             THEN WriteFile(output_file, outcome.report)
                            ELSE IF outcome.raised = "write"
                             THEN WriteFile(output_file, << >>)
                            ELSE files
                /\ IF outcome.raised = "none"
                   THEN /\ ret' = output_file
                        /\ e' = "none"
                        /\ pc' = "loop"
                        /\ idx' = idx + 1
                        /\ fault' = fault
                   ELSE IF Caught(outcome.raised)
                   THEN /\ ret' = NoFile
                        /\ e' = outcome.raised
                        /\ pc' = "loop"
                        /\ idx' = idx + 1
                        /\ fault' = fault
                   ELSE /\ fault' = "llm"
                        /\ pc' = "raised"
                        /\ UNCHANGED <<idx, ret, e>>
    /\ UNCHANGED <<env, prev, measured, timeLocals, path, file_type, videoLocals, detector, text, calls,
                   soundLocals>>

\* ------------------------------------------------------------ time_utils.py
\* int(seconds): the fraction cut off toward zero
IntTrunc(f) == IF f.num >= 0 THEN f.num \div f.den ELSE -((-f.num) \div f.den)

\* a formatter whose minute clause takes its number from the seconds clause
format_durationSlip(secs) ==
    LET s == IntTrunc(secs)
        minutes == s \div 60
        remaining_seconds == s % 60
    IN  IF s < 60
        THEN (IF s # 1 THEN ToString(s) \o " seconds" ELSE "1 second")
        ELSE IF remaining_seconds = 0
        THEN (IF minutes # 1 THEN ToString(minutes) \o " minutes" ELSE "1 minute")
        ELSE (IF remaining_seconds = 1 THEN ToString(minutes) \o " minute"
                                       ELSE ToString(minutes) \o " minutes")
             \o " " \o
             (IF remaining_seconds = 1 THEN ToString(remaining_seconds) \o " second"
                                       ELSE ToString(remaining_seconds) \o " seconds")

\* format_duration(seconds)
format_duration(secs) ==
    LET s == IntTrunc(secs)
        minutes == s \div 60
        remaining_seconds == s % 60
    IN  IF s < 60
        THEN (IF s # 1 THEN ToString(s) \o " seconds" ELSE "1 second")
        ELSE IF remaining_seconds = 0
        THEN (IF minutes # 1 THEN ToString(minutes) \o " minutes" ELSE "1 minute")
        ELSE (IF minutes = 1 THEN ToString(minutes) \o " minute"
                             ELSE ToString(minutes) \o " minutes")
             \o " " \o
             (IF remaining_seconds = 1 THEN ToString(remaining_seconds) \o " second"
                                       ELSE ToString(remaining_seconds) \o " seconds")

\* ---------------------------------------------------------- video_length.py
\* CAP_PROP_FRAME_COUNT of the streams of Spec: a container may report a
\* negative count
FrameCounts == (-1)..MaxFrames

\* get_video_duration: 0.0 when the stream does not open or fps <= 0, else
\* frame_count / fps
get_video_duration(opened, rate, count) ==
    IF opened /\ rate.num > 0 THEN [num |-> count * rate.den, den |-> rate.num]
    ELSE NoFps

\* save_video_length(video_path, output_dir)
SaveVideoLength(opened, rate, count) ==
    /\ pc = "length"
    /\ cap' = IF opened THEN "released" ELSE "failed"
    /\ fps' = IF opened THEN rate ELSE fps
    /\ seconds' = get_video_duration(opened, rate, count)
    /\ IF seconds'.num = 0
       THEN /\ ret' = NoFile
            /\ pc' = "loop"
            /\ idx' = idx + 1
            /\ UNCHANGED <<formatted_duration, fault, fs, writes>>
       ELSE LET dir == ResolveDir("video_length", output_dir)
            IN  /\ formatted_duration' = format_duration(seconds')
                /\ IF MkdirRaises(dir)
                   THEN /\ fault' = "mkdir"
                        /\ pc' = "raised"
                        /\ UNCHANGED <<ret, idx, fs, writes>>
                   ELSE /\ dirs' = Mkdir(dir)
                        /\ files' = WriteFile(SomeFile(dir, OutputName(path)),
                                              << <<0, formatted_duration'>> >>)
                        /\ writes' = writes + 1
                        /\ ret' = SomeFile(dir, OutputName(path))
                        /\ pc' = "loop"
                        /\ idx' = idx + 1
                        /\ fault' = fault
    /\ UNCHANGED <<env, prev, measured, llmLocals, path, file_type, nframes, frame_interval,
                   frame_number, current_second, result_lines, detector, text, calls,
                   soundLocals>>

\* ------------------------------------------------------------------ sound.py
\* what AudioAnalyzer.analyze_video may return: the doubles (volume_db,
\* pitch_hz, bpm); (-0.004, 220.0, 120.0) and (-12.3456, 440.005, 90.5)
AudioLevels ==
    { [volume_db |-> Dec(-4, 1000), pitch_hz |-> Dec(220, 1), bpm |-> Dec(120, 1)],
      [volume_db |-> Dec(-123456, 10000), pitch_hz |-> Dec(440005, 1000),
       bpm |-> Dec(905, 10)] }

\* one call of analyze_video_audio: AudioAnalyzer() raises, analyze_video
\* raises, returns None, or returns the three levels
AudioOutcomes ==
    { [kind |-> k, levels |-> [volume_db |-> FZero, pitch_hz |-> FZero, bpm |-> FZero]] :
          k \in {"ctor_raised", "raised", "none"} }
    \cup { [kind |-> "levels", levels |-> l] : l \in AudioLevels }

\* lines 26-28 of sound.py
AudioLines(l) ==
    << <<0, "Average Volume:", FmtF2(l.volume_db), "dB">>,
       <<0, "Average Pitch:", FmtF2(l.pitch_hz), "Hz">>,
       <<0, "Average BPM:", FmtF2(l.bpm)>> >>

\* analyze_video_audio(video_path, output_dir)
AnalyzeVideoAudio(outcome) ==
    /\ pc = "audio"
    /\ measured' = <<outcome>>
    /\ IF outcome.kind \in {"ctor_raised", "raised"}
       THEN /\ fault' = "analyzer"
            /\ pc' = "raised"
            /\ UNCHANGED <<ret, idx, fs, writes>>
       ELSE IF outcome.kind = "none"
       THEN /\ ret' = NoFile
            /\ pc' = "loop"
            /\ idx' = idx + 1
            /\ UNCHANGED <<fault, fs, writes>>
       ELSE LET dir == ResolveDir("sound", output_dir)
            IN  IF MkdirRaises(dir)
                THEN /\ fault' = "mkdir"
                     /\ pc' = "raised"
                     /\ UNCHANGED <<ret, idx, fs, writes>>
                ELSE /\ dirs' = Mkdir(dir)
                     /\ files' = WriteFile(SomeFile(dir, OutputName(path)),
                                           AudioLines(outcome.levels))
                     /\ writes' = writes + 1
                     /\ ret' = SomeFile(dir, OutputName(path))
                     /\ pc' = "loop"
                     /\ idx' = idx + 1
                     /\ fault' = fault
    /\ UNCHANGED <<env, prev, timeLocals, llmLocals, path, file_type, videoLocals, detector,
                   text, calls, soundLocals>>

\* -------------------------------------------------------------- depth_map.py
\* the threshold run() leaves at its default
Threshold == 128

\* depth maps as cv2.imread returns them in grayscale, pixel after pixel:
\* four pixels of which two are close, eight far pixels, 32 pixels of which
\* one is close, and 160 pixels of which 23 are close (23 / 160 is no
\* double: the percentage of line 20 falls below 14.375)
DepthImages ==
    { <<127, 128, 255, 0>>,
      [i \in 1..8 |-> 0],
      [i \in 1..32 |-> IF i = 5 THEN 200 ELSE 40],
      [i \in 1..160 |-> IF i <= 23 THEN 255 ELSE 0] }

\* analyze_depth_map lines 15-23, for the pixels imread returned: the
\* percentages of the close and of the far pixels
analyze_depth_map(img, threshold) ==
    LET total_pixels == Len(img)
        close_pixels == Len(SelectSeq(img, LAMBDA px : px >= threshold))
        far_pixels == total_pixels - close_pixels
    IN  [close_percentage |-> FMul(FRatio(close_pixels, total_pixels), FInt(100)),
         far_percentage |-> FMul(FRatio(far_pixels, total_pixels), FInt(100))]

\* what analyze_depth_map returns for each of the depth maps, at the
\* threshold of run()
DepthResults ==
    { [img |-> img, result |-> analyze_depth_map(img, Threshold)] : img \in DepthImages }
DepthResult(img) == (CHOOSE t \in DepthResults : t.img = img).result

\* f"{image_path.stem}_depth.png"
DepthName(p) == p.stem \o "_depth.png"

\* lines 57-60 of depth_map.py
DepthLines(p, result, threshold) ==
    << <<0, "Depth Map Analysis", "(threshold=" \o ToString(threshold) \o "):">>,
       <<0, "Close to camera:", FmtF2(result.close_percentage) \o "%">>,
       <<0, "Far from camera:", FmtF2(result.far_percentage) \o "%">>,
       <<0, "Depth map image:", DepthName(p)>> >>

\* the file download_depth_map leaves: the pixels of a depth map, or bytes
\* that cv2.imread cannot decode
DepthFile(img) ==
    IF img = << >> THEN << <<0, "no image">> >>
    ELSE << <<0, "depth map">> \o [i \in 1..Len(img) |-> ToString(img[i])] >>

\* cv2.imread(f, cv2.IMREAD_GRAYSCALE) with the files fls: the depth map
\* the file f holds, None (<< >>) when there is no such file or it holds no
\* image
Imread(fls, f) ==
    IF f \in DOMAIN fls /\ \E img \in DepthImages : DepthFile(img) = fls[f]
    THEN CHOOSE img \in DepthImages : DepthFile(img) = fls[f]
    ELSE << >>

\* the files without the file f
RemoveFile(f) == [g \in DOMAIN files \ {f} |-> files[g]]

\* one call of generate_and_analyze_depth_map: DepthMapGenerator() raises;
\* generate_depth_map raises or returns no URL; download_depth_map raises,
\* returns False, or returns True, having written a depth map ("analyzed"),
\* having written a file that cannot be decoded, having written nothing
\* ("missing"), or having removed the file that was there
DepthOutcomes ==
    { [kind |-> k, img |-> << >>] :
          k \in {"ctor_raised", "generate_raised", "no_url", "download_raised",
                 "download_failed", "missing", "removed", "undecodable"} }
    \cup { [kind |-> "analyzed", img |-> img] : img \in DepthImages }

\* generate_and_analyze_depth_map(image_path, output_dir): after a download
\* that returned True, analyze_depth_map reads what is at the path of the
\* depth map, be it of this download or of an earlier run
GenerateAndAnalyzeDepthMap(outcome) ==
    /\ pc = "depth"
    /\ LET dir == ResolveDir("depth_map", output_dir)
           depth_map_image_path == SomeFile(dir, DepthName(path))
           output_file == SomeFile(dir, OutputName(path))
           downloaded == CASE outcome.kind \in {"analyzed", "undecodable"} ->
                                 WriteFile(depth_map_image_path, DepthFile(outcome.img))
                           [] outcome.kind = "removed" -> RemoveFile(depth_map_image_path)
                           [] OTHER -> files
           img == Imread(downloaded, depth_map_image_path)
       IN  IF MkdirRaises(dir)
           THEN /\ fault' = "mkdir"
                /\ pc' = "raised"
                /\ UNCHANGED <<ret, idx, fs, writes, measured>>
           ELSE /\ dirs' = Mkdir(dir)
                /\ IF outcome.kind \in {"ctor_raised", "generate_raised", "download_raised"}
                   THEN /\ measured' = <<outcome>>
                        /\ fault' = "generator"
                        /\ pc' = "raised"
                        /\ UNCHANGED <<ret, idx, files, writes>>
                   ELSE IF outcome.kind \in {"no_url", "download_failed"}
                   THEN /\ measured' = <<outcome>>
                        /\ ret' = NoFile
                        /\ pc' = "loop"
                        /\ idx' = idx + 1
                        /\ UNCHANGED <<fault, files, writes>>
                   ELSE IF img = << >>
                   THEN /\ measured' = <<outcome>>
                        /\ files' = downloaded
                        /\ ret' = NoFile
                        /\ pc' = "loop"
                        /\ idx' = idx + 1
                        /\ UNCHANGED <<fault, writes>>
                   ELSE /\ measured' = <<[kind |-> outcome.kind, img |-> img]>>
                        /\ files' = (output_file :> DepthLines(path, DepthResult(img), Threshold))
                                     @@ downloaded
                        /\ writes' = writes + 1
                        /\ ret' = output_file
                        /\ pc' = "loop"
                        /\ idx' = idx + 1
                        /\ fault' = fault
    /\ UNCHANGED <<env, prev, timeLocals, llmLocals, path, file_type, videoLocals, detector,
                   text, calls, soundLocals>>

\* ----------------------------------------------------------- color_theory.py
\* colorsys.rgb_to_hsv(r / 255.0, g / 255.0, b / 255.0)[0], the hue
Hue(c) ==
    LET maxi == IF c[1] >= c[2] /\ c[1] >= c[3] THEN c[1]
                ELSE IF c[2] >= c[3] THEN c[2] ELSE c[3]
        mini == IF c[1] <= c[2] /\ c[1] <= c[3] THEN c[1]
                ELSE IF c[2] <= c[3] THEN c[2] ELSE c[3]
        r == FRatio(c[1], 255)
        g == FRatio(c[2], 255)
        b == FRatio(c[3], 255)
        maxc == FRatio(maxi, 255)
        rangec == FSub(maxc, FRatio(mini, 255))
        rc == FDiv(FSub(maxc, r), rangec)
        gc == FDiv(FSub(maxc, g), rangec)
        bc == FDiv(FSub(maxc, b), rangec)
        h == IF c[1] = maxi THEN FSub(bc, gc)
             ELSE IF c[2] = maxi THEN FSub(FAdd(FInt(2), rc), bc)
             ELSE FSub(FAdd(FInt(4), gc), rc)
        h6 == FDiv(h, FInt(6))
    IN  IF mini = maxi THEN FZero
        ELSE IF h6.m # << >> /\ h6.neg THEN FAdd(h6, FInt(1))
        ELSE h6

\* _color_sort_key(r, g, b, repetitions), lines 104-119
color_sort_key(c, repetitions) ==
    LET r_norm == FRatio(c[1], 255)
        g_norm == FRatio(c[2], 255)
        b_norm == FRatio(c[3], 255)
        lum == FSqrt(FAdd(FAdd(FMul(FRatio(241, 1000), r_norm),
                               FMul(FRatio(691, 1000), g_norm)),
                          FMul(FRatio(68, 1000), b_norm)))
        v == IF r_norm.m = << >> /\ g_norm.m = << >> /\ b_norm.m = << >> THEN FZero
             ELSE IF ~FLess(r_norm, g_norm) /\ ~FLess(r_norm, b_norm) THEN r_norm
             ELSE IF ~FLess(g_norm, b_norm) THEN g_norm ELSE b_norm
        h2 == FFloor(FMul(Hue(c), FInt(repetitions)))
        v2 == FFloor(FMul(v, FInt(repetitions)))
    IN  IF h2 % 2 = 1
        THEN [h2 |-> h2, lum |-> FSub(FInt(repetitions), lum), v2 |-> repetitions - v2]
        ELSE [h2 |-> h2, lum |-> lum, v2 |-> v2]

\* the colours of the clusters as lines 37-44 list them, before they are
\* sorted: two clusters, five clusters, each in two orders, and clusters at
\* the borders of the hue steps
Centres ==
    { << <<12, 40, 200>>, <<250, 250, 250>> >>,
      << <<250, 250, 250>>, <<12, 40, 200>> >>,
      << <<0, 0, 0>>, <<30, 144, 255>>, <<255, 99, 71>>, <<255, 215, 0>>, <<255, 255, 255>> >>,
      << <<255, 215, 0>>, <<255, 255, 255>>, <<30, 144, 255>>, <<0, 0, 0>>, <<255, 99, 71>> >>,
      << <<32, 31, 33>>, <<33, 25, 1>>, <<1, 25, 33>> >> }

\* k1 < k2 for the tuples (h2, lum, v2) of _color_sort_key
KeyLess(k1, k2) ==
    \/ k1.h2 < k2.h2
    \/ /\ k1.h2 = k2.h2
       /\ \/ FLess(k1.lum, k2.lum)
          \/ k1.lum = k2.lum /\ k1.v2 < k2.v2

\* the colours with their keys
RECURSIVE Keyed(_)
Keyed(colors) ==
    IF colors = << >> THEN << >>
    ELSE <<[color |-> Head(colors), key |-> color_sort_key(Head(colors), 8)]>>
         \o Keyed(Tail(colors))

\* list.sort(key=...), line 46: ascending by key, colours of equal keys in
\* the order they had
RECURSIVE SortByKey(_)
SortByKey(keyed) ==
    IF keyed = << >> THEN << >>
    ELSE LET n == Len(keyed)
             sorted == SortByKey(SubSeq(keyed, 1, n - 1))
             before == SelectSeq(sorted, LAMBDA x : ~KeyLess(keyed[n].key, x.key))
             after == SelectSeq(sorted, LAMBDA x : KeyLess(keyed[n].key, x.key))
         IN  before \o <<keyed[n]>> \o after

\* extract_palette(path, 5, return_hex=False) for the colours of the
\* clusters: the colours sorted
extract_palette(colors) ==
    LET sorted == SortByKey(Keyed(colors))
    IN  [j \in 1..Len(sorted) |-> sorted[j].color]

\* what extract_palette may return in create_palette_visualization
Palettes == { extract_palette(colors) : colors \in Centres }

\* f"{path.stem}_with_palette{path.suffix}"
PaletteName(p) == p.stem \o "_with_palette" \o Str(p.suffix)

\* a colour as text
ColorStr(c) ==
    "(" \o ToString(c[1]) \o ", " \o ToString(c[2]) \o ", " \o ToString(c[3]) \o ")"

\* the image combined_img.save writes: the input with its palette below
PaletteFile(palette) ==
    << <<0, "image">>,
       <<0, "palette">> \o [j \in 1..Len(palette) |-> ColorStr(palette[j])] >>

\* one call of run() on an image: lines 150-152 raise (the image cannot be
\* read or clustered); or create_palette_visualization raises before it
\* saves; or it saves the image with a palette
ColorOutcomes ==
    { [kind |-> k, palette |-> << >>] : k \in {"extract_raised", "render_raised"} }
    \cup { [kind |-> "saved", palette |-> c] : c \in Palettes }

\* the image branch of color_theory.run
ColorTheory(outcome) ==
    /\ pc = "palette"
    /\ measured' = <<outcome>>
    /\ LET output_path == SomeFile(ResolveDir("color_theory", output_dir), PaletteName(path))
       IN  IF outcome.kind = "extract_raised"
           THEN /\ fault' = "palette"
                /\ pc' = "raised"
                /\ UNCHANGED <<ret, idx, fs, writes>>
           ELSE IF MkdirRaises(output_path.dir)
           THEN /\ fault' = "mkdir"
                /\ pc' = "raised"
                /\ UNCHANGED <<ret, idx, fs, writes>>
           ELSE /\ dirs' = Mkdir(output_path.dir)
                /\ IF outcome.kind = "render_raised"
                   THEN /\ fault' = "palette"
                        /\ pc' = "raised"
                        /\ UNCHANGED <<ret, idx, files, writes>>
                   ELSE /\ files' = WriteFile(output_path, PaletteFile(outcome.palette))
                        /\ writes' = writes + 1
                        /\ ret' = output_path
                        /\ pc' = "loop"
                        /\ idx' = idx + 1
                        /\ fault' = fault
    /\ UNCHANGED <<env, prev, timeLocals, llmLocals, path, file_type, videoLocals, detector,
                   text, calls, soundLocals>>

Next ==
    \/ StartFile
    \/ \E readable \in BOOLEAN : \E outcome \in DetectorOutcomes(analyzer) :
          ExtractImage(readable, outcome)
    \/ \E opened \in BOOLEAN : \E rate \in FpsValues : \E n \in 0..MaxFrames :
          OpenVideo(opened, rate, n)
    \/ \E outcome \in DetectorOutcomes(analyzer) : ProcessFrame(outcome)
    \/ EndOfStream
    \/ Save
    \/ \E outcome \in SeparatorOutcomes : SeparateVideoAudio(outcome)
    \/ \E outcome \in DynamicsOutcomes : AnalyzeTrack(outcome)
    \/ FinishManifest
    \/ \E outcome \in LlmOutcomes : AnalyzeAdImage(outcome)
    \/ \E opened \in BOOLEAN : \E rate \in FpsValues : \E count \in FrameCounts :
          SaveVideoLength(opened, rate, count)
    \/ \E outcome \in AudioOutcomes : AnalyzeVideoAudio(outcome)
    \/ \E outcome \in DepthOutcomes : GenerateAndAnalyzeDepthMap(outcome)
    \/ \E outcome \in ColorOutcomes : ColorTheory(outcome)

Spec == Init /\ [][Next]_vars

\* one video handed to one analyzer, with the frame rates of SamplerFps
InitSampler ==
    /\ Init
    /\ analyzer \in FrameAnalyzers
    /\ queue = << [stem |-> "a", suffix |-> <<".","m","p","4">>] >>
    /\ output_dir = NoDir
    /\ blocked = {}

\* the stream lengths of SpecSampler for a frame rate
SamplerLengths(rate) ==
    0 .. (MaxSeconds * (IF rate.num > rate.den THEN IntOf(rate) ELSE 1))

NextSampler ==
    \/ StartFile
    \/ \E opened \in BOOLEAN : \E rate \in SamplerFps : \E n \in SamplerLengths(rate) :
          OpenVideo(opened, rate, n)
    \/ \E outcome \in DetectorOutcomes(analyzer) : ProcessFrame(outcome)
    \/ EndOfStream
    \/ Save

SpecSampler == InitSampler /\ [][NextSampler]_vars

\* the same program, which is not stopped from outside: as long as it has a
\* step to take it takes one
SpecSamplerLive == InitSampler /\ [][NextSampler]_vars /\ WF_vars(NextSampler)

\* ------------------------------------------- the classifier on many names
\* position of the last "." of a file name, 0 when it has none
LastDot(name) ==
    IF \E i \in 1..Len(name) : name[i] = "."
    THEN CHOOSE i \in 1..Len(name) :
            name[i] = "." /\ \A j \in (i + 1)..Len(name) : name[j] # "."
    ELSE 0

\* PurePath.suffix: the name from its last "." on; empty when the name has no
\* ".", when its last "." is its first character, or when it ends with "."
Suffix(name) ==
    LET i == LastDot(name)
    IN  IF 1 < i /\ i < Len(name) THEN SubSeq(name, i, Len(name)) ELSE << >>

\* Path(name): the name without its suffix, and the suffix
PathOf(name) ==
    [stem |-> Str(SubSeq(name, 1, Len(name) - Len(Suffix(name)))),
     suffix |-> Suffix(name)]

\* a suffix in every mix of upper and lower case
RECURSIVE CaseVariants(_)
CaseVariants(s) ==
    IF s = << >> THEN { << >> }
    ELSE { <<c>> \o r : c \in {LowerChar(Head(s)), UpperChar(Head(s))},
                        r \in CaseVariants(Tail(s)) }

\* suffixes that are in neither set: other formats, and the listed ones
\* shortened or lengthened by a letter
OtherSuffixes ==
    { <<".","t","x","t">>, <<".","m","p","3">>, <<".","w","a","v">>,
      <<".","p","n">>, <<".","p","n","g","x">>, <<".","j","p","e">>,
      <<".","m","p">>, <<".","m","p","4","v">>, <<".","t","i","f">>,
      <<".","h","e","i","c">>, <<".","p","d","f">> }

\* what stands in front of the suffix: a stem, nothing (the name then starts
\* with its only "."), a stem with a suffix of its own
ClassifyStems == { <<"a">>, << >>, <<"a",".","m","p","4">>, <<"b",".","p","n","g">> }

\* the names the classifier is tried on
ClassifyNames ==
    { st \o c : st \in ClassifyStems,
                c \in UNION { CaseVariants(ext) :
                                ext \in image_extensions \cup video_extensions
                                      \cup OtherSuffixes } }
    \cup { <<"a">>, <<"p","n","g">>, <<"m","p","4">>, <<"a",".">>,
           <<"a",".","p","n","g",".">>, <<"a",".","M","P","4",".">> }

\* one file of one name is handed to run()
InitClassify ==
    /\ analyzer \in Analyzers
    /\ output_dir = NoDir
    /\ queue \in { << PathOf(n) >> : n \in ClassifyNames }
    /\ blocked = {}
    /\ StartState

NextClassify == StartFile

SpecClassify == InitClassify /\ [][NextClassify]_vars

\* --------------------------------------------- video_length.run on one video
\* the frame rates of SpecDuration: 1 and 2 frames a second
DurationFps == { [num |-> 1, den |-> 1], [num |-> 2, den |-> 1] }

\* the frame counts of SpecDuration: at rate 1 the whole numbers of seconds up
\* to MaxDuration, at rate 2 the halves from -3/2 up to MaxDuration + 1/2
DurationCounts(rate) ==
    IF rate.num = 1 THEN 0..MaxDuration ELSE (-3)..(2 * MaxDuration + 1)

InitDuration ==
    /\ analyzer = "video_length"
    /\ output_dir = NoDir
    /\ queue = << [stem |-> "a", suffix |-> <<".","m","p","4">>] >>
    /\ blocked = {}
    /\ StartState

NextDuration ==
    \/ StartFile
    \/ \E rate \in DurationFps : \E count \in DurationCounts(rate) :
          SaveVideoLength(TRUE, rate, count)

SpecDuration == InitDuration /\ [][NextDuration]_vars

\* ------------------------------------------ two inputs that share their stem
\* the analyzers that write one report {stem}.txt for an input
ReportAnalyzers == FrameAnalyzers \cup {"llm_insights", "video_length", "sound", "depth_map"}

\* inputs of stem "a": two images and two videos
SameStemPaths ==
    { [stem |-> "a", suffix |-> <<".","p","n","g">>],
      [stem |-> "a", suffix |-> <<".","J","P","G">>],
      [stem |-> "a", suffix |-> <<".","m","p","4">>],
      [stem |-> "a", suffix |-> <<".","M","O","V">>] }

\* one analyzer is run on two different inputs of the same stem, in sequence
InitCollide ==
    /\ analyzer \in ReportAnalyzers
    /\ output_dir \in OutputDirs
    /\ queue \in { pq \in SameStemPaths \X SameStemPaths : pq[1] # pq[2] }
    /\ blocked = {}
    /\ StartState

NextCollide ==
    \/ StartFile
    \/ \E readable \in BOOLEAN : \E outcome \in DetectorOutcomes(analyzer) :
          ExtractImage(readable, outcome)
    \/ \E opened \in BOOLEAN : \E rate \in FpsValues : \E n \in 0..MaxFrames :
          OpenVideo(opened, rate, n)
    \/ \E outcome \in DetectorOutcomes(analyzer) : ProcessFrame(outcome)
    \/ EndOfStream
    \/ Save
    \/ \E outcome \in LlmOutcomes : AnalyzeAdImage(outcome)
    \/ \E opened \in BOOLEAN : \E rate \in FpsValues : \E count \in FrameCounts :
          SaveVideoLength(opened, rate, count)
    \/ \E outcome \in AudioOutcomes : AnalyzeVideoAudio(outcome)
    \/ \E outcome \in DepthOutcomes : GenerateAndAnalyzeDepthMap(outcome)

SpecCollide == InitCollide /\ [][NextCollide]_vars

\* --------------------------------------------- the manifest of one video
\* the names of the tracks the separator makes, and one that is not all
\* lower case
TrackNames ==
    << <<"d","r","u","m","s">>, <<"b","a","s","s">>, <<"o","t","h","e","r">>,
       <<"v","o","c","a","l","s">>,
       <<"i","n","s","t","r","u","m","e","n","t","a","l">> >>

\* a track of the mapping: name -> output_dir / f"{name}.wav"
Track(name, ex, size) ==
    [name |-> name, file |-> Str(name) \o ".wav", exists |-> ex, size |-> size]

\* sizes of track files: none, one byte, around half a hundredth of a MiB,
\* an eighth and three eighths of a MiB (halfway between two hundredths),
\* 1000000 and 2653328 bytes, a byte less than a MiB, 1, 2 and 5120 MiB
TrackSizes ==
    { Size(0, 0), Size(0, 1), Size(0, 5242), Size(0, 5243), Size(0, 131072),
      Size(0, 393216), Size(0, 1000000), Size(0, 1048575), Size(1, 0), Size(2, 0),
      Size(2, 556176), Size(5120, 0) }

\* the mappings of SpecManifest: none, one track of every size, three tracks
\* of which any may be missing, the five tracks of a full separation, and a
\* track whose name has upper-case letters
ManifestTrackMaps ==
    { << >> }
    \cup { << Track(TrackNames[1], TRUE, sz) >> : sz \in TrackSizes }
    \cup { << Track(TrackNames[1], x, Size(1, 0)), Track(TrackNames[2], y, Size(0, 131072)),
              Track(TrackNames[3], z, Size(5120, 0)) >> : x \in BOOLEAN, y \in BOOLEAN, z \in BOOLEAN }
    \cup { [i \in 1..5 |-> Track(TrackNames[i], TRUE, Size(2, 556176))] }
    \cup { << Track(<<"l","e","a","d","V","O","X">>, TRUE, Size(2, 0)) >> }

ManifestOutcomes ==
    { [kind |-> k, tracks |-> << >>] : k \in {"ctor_raised", "raised", "none", "open_raised"} }
    \cup { [kind |-> "tracks", tracks |-> t] : t \in ManifestTrackMaps }

\* sound_extraction.run on one video
InitManifest ==
    /\ analyzer = "sound_extraction"
    /\ output_dir \in OutputDirs
    /\ queue = << [stem |-> "a", suffix |-> <<".","m","p","4">>] >>
    /\ blocked = {}
    /\ StartState

NextManifest ==
    \/ StartFile
    \/ \E outcome \in ManifestOutcomes : SeparateVideoAudio(outcome)
    \/ \E outcome \in DynamicsOutcomes : AnalyzeTrack(outcome)
    \/ FinishManifest

SpecManifest == InitManifest /\ [][NextManifest]_vars

\* -------------------------------------------- sound_extraction.run alone
InitSeparation ==
    /\ analyzer = "sound_extraction"
    /\ output_dir \in OutputDirs
    /\ queue \in Queues
    /\ blocked \in BlockedChoices
    /\ StartState

NextSeparation ==
    \/ StartFile
    \/ \E outcome \in SeparatorOutcomes : SeparateVideoAudio(outcome)
    \/ \E outcome \in DynamicsOutcomes : AnalyzeTrack(outcome)
    \/ FinishManifest

SpecSeparation == InitSeparation /\ [][NextSeparation]_vars

\* ------------------------------------------------ llm_insights.run alone
InitInsights ==
    /\ analyzer = "llm_insights"
    /\ output_dir \in OutputDirs
    /\ queue \in Queues
    /\ blocked \in BlockedChoices
    /\ StartState

NextInsights ==
    \/ StartFile
    \/ \E outcome \in LlmOutcomes : AnalyzeAdImage(outcome)

SpecInsights == InitInsights /\ [][NextInsights]_vars

\* ------------------------------------- an analyzer run again on its input
\* detector results that are neither sorted nor free of repetitions
UnsortedResults(a) ==
    CASE a = "body_keypoints" ->
            { << >>, << <<11, 250, 240, 12288>>, <<0, 320, 110, 65510>>,
                        <<11, 250, 240, 12288>> >> }
      [] a = "face_keypoints" ->
            { << >>, << << <<4, 310, 190>>, <<1, 300, 200>> >>, << <<1, 90, 80>> >>,
                        << <<4, 310, 190>>, <<1, 300, 200>> >> >> }
      [] a = "text_boxes" ->
            { << >>,
              << [text |-> "SALE", left |-> 95, top |-> 20, width |-> 80, height |-> 30,
                  block_num |-> 1, par_num |-> 1, line_num |-> 1, word_num |-> 2],
                 [text |-> "50%", left |-> 10, top |-> 20, width |-> 40, height |-> 30,
                  block_num |-> 1, par_num |-> 1, line_num |-> 1, word_num |-> 1],
                 [text |-> "SALE", left |-> 95, top |-> 20, width |-> 80, height |-> 30,
                  block_num |-> 1, par_num |-> 1, line_num |-> 1, word_num |-> 2] >> }
      [] OTHER -> {}

RerunOutcomes(a) ==
    {[raised |-> TRUE, data |-> << >>]} \cup
    {[raised |-> FALSE, data |-> d] : d \in UnsortedResults(a)}

\* the loop is given b.png, then twice an image or twice a video of stem a
InitRerun ==
    /\ analyzer \in Analyzers
    /\ output_dir \in OutputDirs
    /\ queue \in { << [stem |-> "b", suffix |-> <<".","p","n","g">>], p, p >> :
                      p \in { [stem |-> "a", suffix |-> <<".","p","n","g">>],
                              [stem |-> "a", suffix |-> <<".","m","p","4">>] } }
    /\ blocked = {}
    /\ StartState

NextRerun ==
    \/ StartFile
    \/ \E readable \in BOOLEAN : \E outcome \in RerunOutcomes(analyzer) :
          ExtractImage(readable, outcome)
    \/ \E opened \in BOOLEAN : \E rate \in FpsValues : \E n \in 0..MaxFrames :
          OpenVideo(opened, rate, n)
    \/ \E outcome \in RerunOutcomes(analyzer) : ProcessFrame(outcome)
    \/ EndOfStream
    \/ Save
    \/ \E outcome \in SeparatorOutcomes : SeparateVideoAudio(outcome)
    \/ \E outcome \in DynamicsOutcomes : AnalyzeTrack(outcome)
    \/ FinishManifest
    \/ \E outcome \in LlmOutcomes : AnalyzeAdImage(outcome)
    \/ \E opened \in BOOLEAN : \E rate \in FpsValues : \E count \in FrameCounts :
          SaveVideoLength(opened, rate, count)
    \/ \E outcome \in AudioOutcomes : AnalyzeVideoAudio(outcome)
    \/ \E outcome \in DepthOutcomes : GenerateAndAnalyzeDepthMap(outcome)
    \/ \E outcome \in ColorOutcomes : ColorTheory(outcome)

SpecRerun == InitRerun /\ [][NextRerun]_vars

TypeOK ==
    /\ pc \in {"loop", "image", "video", "frames", "save", "raised",
              "separate", "dynamics", "analyze", "length", "audio", "depth", "palette"}
    /\ idx \in 0..Len(queue)

\* ================================================================ properties
\* a video extraction that returned a report: the loop ended and the stream
\* was released
TraversalDone ==
    /\ file_type = "video"
    /\ pc \in {"save", "loop"}
    /\ cap = "released"
    /\ ~text.isNone

\* ceil(n / d) for d >= 1
CeilDiv(n, d) == (n + d - 1) \div d

\* C1: a stream with an integer frame rate fps >= 1 and N frames is sampled at
\* exactly the frames 0, fps, 2*fps, ... below N, in stream order, and these
\* are tagged with the seconds 0, 1, ..., ceil(N / fps) - 1.
C1_SamplesEveryFpsFrames ==
    (TraversalDone /\ fps.den = 1 /\ fps.num >= 1) =>
        /\ Len(calls) = CeilDiv(nframes, fps.num)
        /\ \A i \in 1..Len(calls) :
              /\ calls[i].frame = (i - 1) * fps.num
              /\ calls[i].second = i - 1
        /\ \A n \in 0..(nframes - 1) :
              (n % fps.num = 0) <=> (\E i \in 1..Len(calls) : calls[i].frame = n)

\* fps = 30 and N = 90: three samples, seconds 0, 1, 2 at frames 0, 30, 60
C1_Witness ==
    /\ TraversalDone
    /\ fps = [num |-> 30, den |-> 1]
    /\ nframes = 90
    /\ [i \in 1..Len(calls) |-> <<calls[i].second, calls[i].frame>>]
         = << <<0, 0>>, <<1, 30>>, <<2, 60>> >>

\* the stream did not open, or it reported fps <= 0
NoStream == file_type = "video" /\ (cap = "failed" \/ (cap = "released" /\ fps.num <= 0))

\* C2: when the stream fails to open or reports fps <= 0, no frame is sampled,
\* no detector is built or called, the extraction returns None without a
\* fault, and the save step that follows writes nothing and returns None.
C2_NoStreamNoResult ==
    /\ [](NoStream =>
            /\ calls = << >>
            /\ detector = "none"
            /\ text.isNone
            /\ fault = "none"
            /\ pc \in {"save", "loop"}
            /\ (pc = "loop" => ret.isNone))
    /\ [][(NoStream /\ pc = "save") => (files' = files /\ dirs' = dirs /\ pc' = "loop")]_vars

\* a stream reported fps = 0 and the call of save_* has returned
C2_Witness ==
    /\ NoStream
    /\ cap = "released"
    /\ fps.num = 0
    /\ pc = "loop"
    /\ ret.isNone

\* C3: when an extraction call has ended (it returned, or a fault left it),
\* the detector it acquired has been released.
C3_DetectorReleased ==
    pc \in {"save", "loop", "raised"} => detector # "open"

\* C4: a structural failure (here: the output directory cannot be created)
\* ends the processing of that file only; the program does not stop on it
\* while files are still queued behind the failing one.
C4_LaterFilesProcessed ==
    (pc = "raised" /\ fault = "mkdir") => idx + 1 = Len(queue)

\* the content of output file f is one whole report: a text with at least one
\* line, and for a manifest a text that ends with its footer
WholeReport(f) ==
    /\ files[f] # << >>
    /\ f.name = "manifest.txt" =>
          (Len(Last(files[f])) >= 2 /\ Last(files[f])[2] = "Total tracks:")

\* C5: whenever no write is going on (between two calls, or after a fault
\* has left the program), every output file that exists holds one whole
\* report, never a part of one.
C5_WholeFileWrites ==
    pc \in {"loop", "raised"} => \A f \in DOMAIN files : WholeReport(f)

\* a line that starts with "Second {n}:"
IsSecondLine(l) == Len(l) >= 3 /\ l[1] = 0 /\ l[2] = "Second"

\* the number n of a token "{n}:", looked for in 0..lim; -1 when there is none
ParseNumber(tok, lim) ==
    IF \E n \in 0..lim : tok = ToString(n) \o ":"
    THEN CHOOSE n \in 0..lim : tok = ToString(n) \o ":"
    ELSE -1

\* the values n read back from the "Second {n}:" lines of a text, in line order
ParsedSeconds(ls) ==
    LET hs == SelectSeq(ls, IsSecondLine)
    IN  [i \in 1..Len(hs) |-> ParseNumber(hs[i][3], Len(ls))]

\* C6: the seconds read back from the report of a traversal are the seconds
\* the sampler emitted, in order: 0, 1, ..., k-1, whatever the detector found.
C6_SecondsRoundTrip ==
    TraversalDone =>
        /\ ParsedSeconds(text.lines) = [i \in 1..Len(calls) |-> calls[i].second]
        /\ \A i \in 1..Len(ParsedSeconds(text.lines)) :
              ParsedSeconds(text.lines)[i] = i - 1

\* a report of three groups, with and without detections
C6_Witness ==
    /\ TraversalDone
    /\ Len(calls) = 3
    /\ calls[1].data # << >>
    /\ calls[2].data = << >>
    /\ ParsedSeconds(text.lines) = <<0, 1, 2>>

\* the sentinel of each analyzer
SentinelText(a) ==
    CASE a = "body_keypoints" -> "No pose detected"
      [] a = "face_keypoints" -> "No faces detected"
      [] a = "text_boxes" -> "No text detected"

\* a call of save_keypoints / save_text_boxes that went through an extraction
\* has returned
SaveReturned ==
    /\ analyzer \in FrameAnalyzers
    /\ file_type \in {"image", "video"}
    /\ pc = "loop"

\* C7: save_* returns a file exactly when the extraction returned a report,
\* and the file then holds exactly that report; an image or a sampled frame
\* without detections still gives a file, with the sentinel in it; unreadable
\* media give no file and leave the files as they are.
C7_FileIffReport ==
    /\ [](SaveReturned =>
            /\ ret.isNone <=> text.isNone
            /\ ~text.isNone => (ret \in DOMAIN files /\ files[ret] = text.lines)
            /\ (file_type = "image" /\ calls = << >>) => ret.isNone
            /\ NoStream => ret.isNone
            /\ (file_type = "image" /\ calls # << >> /\ calls[1].data = << >>) =>
                  (~ret.isNone /\ files[ret] = << <<0, SentinelText(analyzer)>> >>)
            /\ (file_type = "video" /\ ~text.isNone) =>
                  \A i \in 1..Len(calls) :
                      calls[i].data = << >> =>
                          \E j \in 1..Len(files[ret]) :
                              files[ret][j] = <<0, "Second", ToString(i - 1) \o ":",
                                                SentinelText(analyzer)>>)
    /\ [][(pc = "save" /\ text.isNone) => (files' = files /\ pc' = "loop")]_vars

\* an image without detections was saved: the file holds the sentinel
C7_Witness ==
    /\ SaveReturned
    /\ file_type = "image"
    /\ calls # << >>
    /\ calls[1].data = << >>
    /\ ~ret.isNone
    /\ files[ret] = << <<0, SentinelText(analyzer)>> >>

\* C8: a stream that opens with a valid frame rate and has no frame gives the
\* report "No frames processed", and only such a stream does: with at least
\* one frame the report has a "Second" line.
C8_NoFramesProcessed ==
    (file_type = "video" /\ cap = "released" /\ fps.num > 0) =>
        /\ ~text.isNone
        /\ (nframes = 0) <=> (text.lines = << <<0, "No frames processed">> >>)
        /\ nframes >= 1 => ParsedSeconds(text.lines) # << >>

\* a stream of rate 30 without frames was traversed
C8_Witness ==
    /\ TraversalDone
    /\ fps.num = 30
    /\ nframes = 0
    /\ text.lines = << <<0, "No frames processed">> >>

\* C9: a readable image on which the detector finds nothing gives a report
\* that is the sentinel of the analyzer and nothing else.
C9_ImageSentinelOnly ==
    (/\ analyzer \in FrameAnalyzers
     /\ file_type = "image"
     /\ pc \in {"save", "loop"}
     /\ calls # << >>
     /\ calls[1].data = << >>) =>
        text = SomeText(<< <<0, SentinelText(analyzer)>> >>)

\* the OCR extractor found no text on a readable image
C9_Witness ==
    /\ analyzer = "text_boxes"
    /\ file_type = "image"
    /\ pc = "save"
    /\ calls # << >>
    /\ calls[1].data = << >>
    /\ text.lines = << <<0, "No text detected">> >>

\* a line that renders a detection or heads a group: not a blank line and
\* not the line that counts the text boxes
IsDetailLine(l) ==
    Len(l) >= 2 /\ l[2] \notin {"Total text boxes:", "Total text boxes detected:"}

Detail(ls) == SelectSeq(ls, IsDetailLine)

IsNotBlockLine(l) == l[2] # "Block:"

\* the group of second n as the image case renders the detections: the header
\* line, then the sentinel of the image case on that line, or the lines of
\* the image case two blanks deeper
GroupAsImage(a, n, data) ==
    IF data = << >>
    THEN << <<0, "Second", ToString(n) \o ":">> \o Tail(ImageLines(a, << >>)[1]) >>
    ELSE << <<0, "Second", ToString(n) \o ":">> >>
         \o IndentAll(Detail(ImageLines(a, data)), 2)

\* the same, where a text box is rendered without its Block/Paragraph/Line/Word line
GroupAsImageNoBlock(a, n, data) ==
    IF data = << >>
    THEN << <<0, "Second", ToString(n) \o ":">> \o Tail(ImageLines(a, << >>)[1]) >>
    ELSE << <<0, "Second", ToString(n) \o ":">> >>
         \o IndentAll(SelectSeq(Detail(ImageLines(a, data)), IsNotBlockLine), 2)

\* C10 as stated: the groups of a video report are in ascending order of
\* second and each is the header followed by the sentinel or by the lines
\* the image case renders for the same detections, one level deeper, for
\* every analyzer.
C10_GroupsAsImageCase ==
    (TraversalDone /\ nframes >= 1) =>
        /\ \A i \in 1..Len(calls) : calls[i].second = i - 1
        /\ Detail(text.lines)
             = Flatten([i \in 1..Len(calls) |->
                          GroupAsImage(analyzer, calls[i].second, calls[i].data)])

\* C10 amended: as above for the pose and face-mesh analyzers; for the
\* text-box analyzer the lines of a box are those of the image case without
\* the Block/Paragraph/Line/Word line.
C10_GroupsAsImageCaseAmended ==
    (TraversalDone /\ nframes >= 1) =>
        /\ \A i \in 1..Len(calls) : calls[i].second = i - 1
        /\ Detail(text.lines)
             = Flatten([i \in 1..Len(calls) |->
                          IF analyzer = "text_boxes"
                          THEN GroupAsImageNoBlock(analyzer, calls[i].second, calls[i].data)
                          ELSE GroupAsImage(analyzer, calls[i].second, calls[i].data)])

\* a text-box report of a group with boxes followed by a group without
C10_Witness ==
    /\ TraversalDone
    /\ analyzer = "text_boxes"
    /\ Len(calls) >= 2
    /\ calls[1].data # << >>
    /\ calls[2].data = << >>

\* the suffixes of section 4.1, as text
ImageSuffixTexts ==
    {".png", ".jpg", ".jpeg", ".gif", ".bmp", ".webp", ".svg", ".tiff", ".ico"}
VideoSuffixTexts ==
    {".mp4", ".avi", ".mov", ".mkv", ".flv", ".wmv", ".webm", ".m4v", ".mpeg", ".mpg"}

\* run() has classified the current path
Classified == pc # "loop" \/ idx > 0

\* C11: the tag is one of image, video, unknown; it is image exactly for the
\* suffixes of the image set and video exactly for those of the video set,
\* whatever their letter case, and unknown otherwise (no suffix included);
\* names with the same lower-cased suffix get the same tag; the tag is given
\* although no file exists; the two sets are disjoint.
C11_TagFromSuffix ==
    Classified =>
        /\ file_type \in {"image", "video", "unknown"}
        /\ (file_type = "image") <=> (Str(Lower(path.suffix)) \in ImageSuffixTexts)
        /\ (file_type = "video") <=> (Str(Lower(path.suffix)) \in VideoSuffixTexts)
        /\ path.suffix = << >> => file_type = "unknown"
        /\ \A st \in ClassifyStems : \A c \in CaseVariants(path.suffix) :
              Lower(Suffix(st \o c)) = Lower(path.suffix) =>
                  is_video_or_image(PathOf(st \o c)) = file_type
        /\ files = << >> /\ dirs = {}
        /\ ImageSuffixTexts \cap VideoSuffixTexts = {}
        /\ image_extensions \cap video_extensions = {}

\* a suffix of the image set in mixed case was tagged image
C11_Witness ==
    /\ Classified
    /\ path.suffix = <<".","J","p","E","g">>
    /\ file_type = "image"

\* "{k} {unit}", the unit in the singular exactly when k = 1
Clause(k, unit) == ToString(k) \o " " \o unit \o (IF k = 1 THEN "" ELSE "s")

\* C12: for a whole number n >= 0 of seconds (the input cut off toward zero)
\* the text is "{n} second(s)" below 60, "{m} minute(s)" for a multiple of 60,
\* "{m} minute(s) {r} second(s)" otherwise, each clause singular exactly for 1;
\* hours are never rendered.
C12_DurationText ==
    formatted_duration # "" =>
        /\ seconds.num >= 0 =>
              LET n == seconds.num \div seconds.den
                  m == n \div 60
                  r == n % 60
              IN  /\ n < 60 => formatted_duration = Clause(n, "second")
                  /\ (n >= 60 /\ r = 0) => formatted_duration = Clause(m, "minute")
                  /\ (n >= 60 /\ r # 0) =>
                        formatted_duration = Clause(m, "minute") \o " " \o Clause(r, "second")
                  /\ n = 0 => formatted_duration = "0 seconds"
                  /\ n = 1 => formatted_duration = "1 second"
                  /\ n = 59 => formatted_duration = "59 seconds"
                  /\ n = 60 => formatted_duration = "1 minute"
                  /\ n = 61 => formatted_duration = "1 minute 1 second"
                  /\ n = 125 => formatted_duration = "2 minutes 5 seconds"
                  /\ n = 3600 => formatted_duration = "60 minutes"
        /\ (seconds.num < 0 /\ -seconds.num < seconds.den) =>
              formatted_duration = "0 seconds"

\* 3660.5 seconds were rendered as 61 minutes, without hours
C12_Witness ==
    /\ seconds = [num |-> 7321, den |-> 2]
    /\ formatted_duration = "61 minutes"

\* the directory and the file the current call writes to
TargetDir ==
    IF analyzer = "sound_extraction" THEN SoundDir(output_dir, path)
    ELSE ResolveDir(analyzer, output_dir)
TargetFile ==
    SomeFile(TargetDir, CASE analyzer = "sound_extraction" -> "manifest.txt"
                          [] analyzer = "color_theory" -> PaletteName(path)
                          [] OTHER -> OutputName(path))

\* the files the current call may write to: its output file and, for
\* depth_map, the depth map image next to it
TargetFiles ==
    {TargetFile} \cup (IF analyzer = "depth_map"
                       THEN {SomeFile(TargetDir, DepthName(path))} ELSE {})

\* the positions of a call in which its output directory is made
MkdirSteps == {"save", "separate", "analyze", "length", "audio", "depth", "palette"}

\* C13: every output file lies in a directory that exists together with all
\* its ancestors, from the moment the file is opened on; and a call that finds
\* its output directory existing does not fail on creating it, creates
\* nothing, and changes no file but the one it writes.
C13_DirBeforeWrite ==
    /\ [](\A f \in DOMAIN files : Ancestors(f.dir) \subseteq dirs)
    /\ [][(pc \in MkdirSteps /\ TargetDir \in dirs) =>
             /\ fault' # "mkdir"
             /\ dirs' = dirs
             /\ \A f \in DOMAIN files :
                   f \notin TargetFiles => (f \in DOMAIN files' /\ files'[f] = files[f])]_vars

\* the second call found the directory of the first and wrote next to its file
C13_Witness ==
    /\ pc = "loop"
    /\ idx = 2
    /\ ~ret.isNone
    /\ fault = "none"
    /\ \E f \in DOMAIN files : f # ret /\ f.dir = ret.dir /\ files[f] # << >>

\* the report (for color_theory: the image) the current call produced
CurrentReport ==
    CASE analyzer = "llm_insights" -> report
      [] analyzer = "video_length" -> SomeText(<< <<0, formatted_duration>> >>)
      [] analyzer = "sound" -> SomeText(AudioLines(measured[1].levels))
      [] analyzer = "depth_map" ->
            SomeText(DepthLines(path, DepthResult(measured[1].img), 128))
      [] analyzer = "color_theory" -> SomeText(PaletteFile(measured[1].palette))
      [] OTHER -> text

\* C14: the file a call returns is {stem}.txt in the resolved directory and
\* holds the report of that call; after two inputs of the same stem have
\* both been written by the same analyzer into the same directory, that
\* directory holds the one file {stem}.txt, with the report of the second
\* input and nothing else in it, and no fault was raised.  (depth_map keeps
\* its depth map image {stem}_depth.png next to the report.)
C14_SameStemOverwrites ==
    /\ (pc = "loop" /\ idx >= 1 /\ ~ret.isNone) =>
          /\ ret.name = path.stem \o ".txt"
          /\ ret.dir = ResolveDir(analyzer, output_dir)
          /\ files[ret] = CurrentReport.lines
    /\ (/\ pc = "loop" /\ idx = 2 /\ writes = 2
        /\ queue[1] # queue[2] /\ queue[1].stem = queue[2].stem) =>
          /\ fault = "none"
          /\ { f \in DOMAIN files : f.name # "a_depth.png" }
                = {SomeFile(ResolveDir(analyzer, output_dir), "a.txt")}
          /\ ~CurrentReport.isNone
          /\ files[SomeFile(ResolveDir(analyzer, output_dir), "a.txt")]
                = CurrentReport.lines

\* the report of a.png was written, then that of a.mp4: one file a.txt is
\* left, with the report of the video
C14_Witness ==
    /\ pc = "loop" /\ idx = 2 /\ writes = 2
    /\ queue[1].suffix = <<".","p","n","g">>
    /\ queue[2].suffix = <<".","m","p","4">>
    /\ Cardinality(DOMAIN files) = 1
    /\ ParsedSeconds(files[ret]) = <<0, 1>>

\* the inputs whose call has started
Started == { queue[i] : i \in 1..(IF pc = "loop" THEN idx ELSE idx + 1) }

\* the name each analyzer has under data/results
AnalyzerName ==
    CASE analyzer = "sound" -> "audio_analysis"
      [] analyzer = "depth_map" -> "depth_maps"
      [] analyzer = "color_theory" -> "color_palettes"
      [] OTHER -> analyzer

\* the file names a call on input q may leave: the report {stem}.txt, and
\* the images of depth_map and color_theory
NamesOf(q) ==
    CASE analyzer = "depth_map" -> {q.stem \o ".txt", q.stem \o "_depth.png"}
      [] analyzer = "color_theory" -> {q.stem \o "_with_palette" \o Str(q.suffix)}
      [] OTHER -> {q.stem \o ".txt"}

\* C15: every output file lies directly in the directory the caller gave, or,
\* when none was given, in data/results/{analyzer_name} (a report) or in
\* data/results/sound_extraction/{video_stem} (a manifest); a manifest is
\* always named manifest.txt; the file a call returns is the one of its
\* input; no directory is made anywhere else.
C15_OutputLocation ==
    /\ \A f \in DOMAIN files :
          /\ ~output_dir.isNone => f.dir = output_dir.path
          /\ (output_dir.isNone /\ analyzer # "sound_extraction") =>
                f.dir = <<"data", "results", AnalyzerName>>
          /\ (output_dir.isNone /\ analyzer = "sound_extraction") =>
                \E q \in Started :
                    /\ is_video_or_image(q) = "video"
                    /\ f.dir = <<"data", "results", "sound_extraction", q.stem>>
          /\ analyzer = "sound_extraction" => f.name = "manifest.txt"
          /\ analyzer # "sound_extraction" => \E q \in Started : f.name \in NamesOf(q)
    /\ (pc = "loop" /\ ~ret.isNone) =>
          /\ ret \in DOMAIN files
          /\ ret.dir = IF ~output_dir.isNone THEN output_dir.path
                       ELSE IF analyzer = "sound_extraction"
                       THEN <<"data", "results", "sound_extraction", path.stem>>
                       ELSE <<"data", "results", AnalyzerName>>
    /\ \A d \in dirs : \E q \in Started :
          d \in Ancestors(IF ~output_dir.isNone THEN output_dir.path
                          ELSE IF analyzer = "sound_extraction"
                          THEN <<"data", "results", "sound_extraction", q.stem>>
                          ELSE <<"data", "results", AnalyzerName>>)

\* two videos were separated without an output directory: each has its
\* manifest.txt in its own directory
C15_Witness ==
    /\ analyzer = "sound_extraction"
    /\ output_dir.isNone
    /\ pc = "loop" /\ idx = 2
    /\ SomeFile(<<"data", "results", "sound_extraction", "a">>, "manifest.txt") \in DOMAIN files
    /\ ret = SomeFile(<<"data", "results", "sound_extraction", "b">>, "manifest.txt")

\* separate_video_audio has returned the manifest of the current video
ManifestReturned ==
    /\ analyzer = "sound_extraction"
    /\ pc = "loop"
    /\ idx >= 1
    /\ ~ret.isNone

\* a line "{Name}: {file} ({size} MB)" of the track list
IsTrackLine(l) == Len(l) = 4 /\ l[1] = 0

IsTotalLine(l) == Len(l) >= 2 /\ l[2] = "Total tracks:"

\* C16: a manifest that separate_video_audio returns has one `Total tracks:`
\* line, its last, and the number on it is the number of entries of the
\* mapping the separator returned, missing artifacts included; for an empty
\* mapping the line reads `Total tracks: 0` and there is no track line.
C16_TotalCountsMapping ==
    /\ ManifestReturned =>
          /\ Last(files[ret]) = <<0, "Total tracks:", ToString(Len(results))>>
          /\ Len(SelectSeq(files[ret], IsTotalLine)) = 1
          /\ results = << >> =>
                /\ Last(files[ret]) = <<0, "Total tracks:", "0">>
                /\ SelectSeq(files[ret], IsTrackLine) = << >>
    /\ \A f \in DOMAIN files : \A i \in 1..Len(files[f]) :
          IsTotalLine(files[f][i]) => files[f][i][3] = ToString(Len(results))

\* a mapping of three entries of which only one exists: its line is the
\* only track line, and the total is 3
C16_Witness ==
    /\ ManifestReturned
    /\ Len(results) = 3
    /\ Len(SelectSeq(files[ret], IsTrackLine)) = 1
    /\ Last(files[ret]) = <<0, "Total tracks:", "3">>

\* the track names with a capital first letter and the rest in lower case
CapitalizedName(name) ==
    CASE name = <<"d","r","u","m","s">> -> "Drums"
      [] name = <<"b","a","s","s">> -> "Bass"
      [] name = <<"o","t","h","e","r">> -> "Other"
      [] name = <<"v","o","c","a","l","s">> -> "Vocals"
      [] name = <<"i","n","s","t","r","u","m","e","n","t","a","l">> -> "Instrumental"
      [] name = <<"l","e","a","d","V","O","X">> -> "Leadvox"

\* the entries of the mapping whose artifact exists, in mapping order
Existing(tracks) == SelectSeq(tracks, LAMBDA t : t.exists)

\* the manifest of the current video, once it is closed
ClosedManifest ==
    /\ analyzer = "sound_extraction"
    /\ pc \in {"loop", "raised"}
    /\ TargetFile \in DOMAIN files

\* C17: the track lines of a manifest are the lines 4, 5, ... of the file, one
\* `{Capitalized name}: {file name} (.. MB)` for each entry whose artifact
\* exists, in mapping order, and none for a missing artifact; a missing
\* artifact is never what a fault is raised for, and a mapping with missing
\* artifacts still gets its manifest.
C17_TrackLinePerArtifact ==
    /\ ClosedManifest =>
          LET ls == files[TargetFile]
              tl == SelectSeq(ls, IsTrackLine)
              ex == Existing(results)
          IN  /\ Len(tl) = Len(ex)
              /\ \A i \in 1..Len(ex) :
                    /\ ls[3 + i] = tl[i]
                    /\ tl[i][2] = CapitalizedName(ex[i].name) \o ":"
                    /\ tl[i][3] = ex[i].file
              /\ Len(ls) >= 3 + Len(ex) + 1
              /\ ~IsTrackLine(ls[3 + Len(ex) + 1])
    /\ (pc = "raised" /\ fault = "dynamics") => results[track_i].exists
    /\ (pc = "dynamics" /\ track_i <= Len(results) /\ ~results[track_i].exists) =>
          ENABLED (AnalyzeTrack(DynamicsRaised) /\ pc' = "dynamics" /\ fault' = fault)

\* drums and other are missing, bass exists: the manifest was returned with
\* the one line of bass
C17_Witness ==
    /\ ManifestReturned
    /\ Len(results) = 3
    /\ ~results[1].exists /\ results[2].exists /\ ~results[3].exists
    /\ SelectSeq(files[ret], IsTrackLine)
         = << <<0, "Bass:", "bass.wav", "(0.12 MB)">> >>
    /\ fault = "none"

\* a line of 60 "=" characters
IsSeparatorLine(l) ==
    l = <<0, "============================================================">>

\* C18: a manifest that separate_video_audio returns is the header line, a
\* separator line, a blank line, the track lines, a blank line, a second
\* separator line and the `Total tracks: {N}` line, and nothing else: it has
\* exactly two separator lines and no section between the track lines and
\* the footer.
C18_ManifestLayout ==
    ManifestReturned =>
        LET ls == files[ret]
            tl == SelectSeq(ls, IsTrackLine)
        IN  /\ Len(SelectSeq(ls, IsSeparatorLine)) = 2
            /\ ls = << <<0, "Audio Separation Results for:", path.stem \o Str(path.suffix)>>,
                       <<0, "============================================================">>,
                       <<0>> >>
                    \o tl
                    \o << <<0>>,
                          <<0, "============================================================">>,
                          <<0, "Total tracks:", ToString(Len(results))>> >>

\* "{w}.{dd}": a number of hundredths with exactly two decimals
TwoDecimals(h) ==
    ToString(h \div 100) \o "." \o (IF h % 100 < 10 THEN "0" ELSE "") \o ToString(h % 100)

\* |x|
Abs(x) == IF x < 0 THEN -x ELSE x

\* C19: the size on a track line is the byte size divided by 1024 * 1024,
\* rounded to the nearest hundredth, written with exactly two decimals and
\* the unit MB whatever the magnitude: 0 bytes is `0.00 MB`, 1048576 is
\* `1.00 MB`, 2097152 is `2.00 MB`, 5368709120 is `5120.00 MB`.
C19_SizeInMB ==
    ClosedManifest =>
        LET tl == SelectSeq(files[TargetFile], IsTrackLine)
            ex == Existing(results)
        IN  /\ Len(tl) = Len(ex)
            /\ \A i \in 1..Len(ex) :
                  LET sz == ex[i].size
                  IN  /\ \E d \in 0..100 :
                            /\ 2 * Abs(sz.rem * 100 - d * 1048576) <= 1048576
                            /\ tl[i][4] = "(" \o TwoDecimals(sz.mib * 100 + d) \o " MB)"
                      /\ sz = Size(0, 0) => tl[i][4] = "(0.00 MB)"
                      /\ sz = Size(1, 0) => tl[i][4] = "(1.00 MB)"
                      /\ sz = Size(2, 0) => tl[i][4] = "(2.00 MB)"
                      /\ sz = Size(5120, 0) => tl[i][4] = "(5120.00 MB)"

\* tracks of 1 MiB, an eighth of a MiB and 5120 MiB are listed
C19_Witness ==
    /\ ManifestReturned
    /\ [i \in 1..Len(SelectSeq(files[ret], IsTrackLine)) |->
            SelectSeq(files[ret], IsTrackLine)[i][4]]
         = <<"(1.00 MB)", "(0.12 MB)", "(5120.00 MB)">>

\* C20: whichever step of the analysis raises (building the analyzer,
\* analysing the image, formatting the insights, opening or writing the
\* report file), analyze_ad_image returns None, no exception leaves it, and
\* run() returns to the loop.
C20_AnalysisFaultsCaught ==
    /\ [](e # "none" =>
            /\ pc = "loop"
            /\ idx >= 1
            /\ ret.isNone
            /\ fault = "none")
    /\ []((pc = "analyze" /\ ~MkdirRaises(TargetDir)) =>
            \A step \in {"analyzer", "analysis", "format", "open", "write"} :
                \A t \in LlmReports :
                    ENABLED (/\ AnalyzeAdImage([raised |-> step, report |-> t])
                             /\ e' = step
                             /\ ret' = NoFile
                             /\ pc' = "loop"))
    /\ [][(pc = "analyze" /\ ~MkdirRaises(TargetDir)) =>
             (pc' = "loop" /\ idx' = idx + 1 /\ fault' = "none")]_vars

\* writing the report raised in the call for the second image: the call
\* returned None and the loop went on
C20_Witness ==
    /\ analyzer = "llm_insights"
    /\ e = "write"
    /\ idx = 2
    /\ pc = "loop"
    /\ ret.isNone
    /\ fault = "none"

\* C21: an exception of the separator (of its constructor or of its
\* separate_video_audio) and an error of opening the manifest
\* are not caught: each leaves separate_video_audio and the program as the
\* fault it is, nothing is returned, and in the separator case the files are
\* as they were before the call, an earlier manifest included.
C21_SeparatorFaultsPropagate ==
    /\ [](fault \in {"constructor", "separator", "open"} =>
            /\ pc = "raised"
            /\ analyzer = "sound_extraction"
            /\ ret.isNone
            /\ idx < Len(queue))
    /\ [][(pc = "separate" /\ fault' \in {"constructor", "separator"}) =>
             files' = files]_vars
    /\ []((pc = "separate" /\ ~MkdirRaises(TargetDir)) =>
            /\ ENABLED (/\ SeparateVideoAudio([kind |-> "raised", tracks |-> << >>])
                        /\ fault' = "separator"
                        /\ pc' = "raised"
                        /\ files' = files)
            /\ ENABLED (/\ SeparateVideoAudio([kind |-> "open_raised", tracks |-> << >>])
                        /\ fault' = "open"
                        /\ pc' = "raised"))

\* the separator raised for the second video, in the directory that holds
\* the manifest of the first: that manifest is still whole
C21_Witness ==
    /\ pc = "raised"
    /\ fault = "separator"
    /\ idx = 1
    /\ TargetFile \in DOMAIN files
    /\ WholeReport(TargetFile)

\* C22: when the separator returns None, separate_video_audio returns None,
\* no fault is raised, no file is created or changed, and run() returns to
\* the loop.
C22_NoneFromSeparator ==
    /\ [][(pc = "separate" /\ pc' = "loop") =>
             /\ ret'.isNone
             /\ files' = files
             /\ fault' = fault
             /\ idx' = idx + 1]_vars
    /\ []((pc = "separate" /\ ~MkdirRaises(TargetDir)) =>
            ENABLED (/\ SeparateVideoAudio([kind |-> "none", tracks |-> << >>])
                     /\ ret'.isNone
                     /\ files' = files
                     /\ fault' = fault
                     /\ pc' = "loop"))

\* the separator returned None for the second video: the call returned None
\* and the manifest of the first video is the only file, still whole
C22_Witness ==
    /\ analyzer = "sound_extraction"
    /\ pc = "loop"
    /\ idx = 2
    /\ file_type = "video"
    /\ ret.isNone
    /\ fault = "none"
    /\ writes = 1
    /\ DOMAIN files = {TargetFile}
    /\ WholeReport(TargetFile)

\* the tag section 4.1 gives a path
SpecTag(p) ==
    IF Str(Lower(p.suffix)) \in ImageSuffixTexts THEN "image"
    ELSE IF Str(Lower(p.suffix)) \in VideoSuffixTexts THEN "video"
    ELSE "unknown"

\* C23: run() classifies its path when it starts and the tag stays as it is
\* until the call has ended; the call goes to separate_video_audio exactly
\* for sound_extraction and video, to analyze_ad_image exactly for
\* llm_insights and image, to the image extraction exactly for a frame
\* analyzer and image, to the video extraction exactly for a frame analyzer
\* and video, to save_video_length and analyze_video_audio exactly for their
\* module and video, to the depth map and the palette exactly for their
\* module and image, each on the path run() was given; in every other case
\* the call ends at once, with no detector call, no file and no directory
\* made.
C23_DispatchOnTag ==
    /\ [][pc = "loop" =>
             /\ path' = queue[idx + 1]
             /\ file_type' = SpecTag(path')
             /\ (pc' = "separate") <=> (analyzer = "sound_extraction" /\ file_type' = "video")
             /\ (pc' = "analyze") <=> (analyzer = "llm_insights" /\ file_type' = "image")
             /\ (pc' = "image") <=> (analyzer \in FrameAnalyzers /\ file_type' = "image")
             /\ (pc' = "video") <=> (analyzer \in FrameAnalyzers /\ file_type' = "video")
             /\ (pc' = "length") <=> (analyzer = "video_length" /\ file_type' = "video")
             /\ (pc' = "audio") <=> (analyzer = "sound" /\ file_type' = "video")
             /\ (pc' = "depth") <=> (analyzer = "depth_map" /\ file_type' = "image")
             /\ (pc' = "palette") <=> (analyzer = "color_theory" /\ file_type' = "image")
             /\ pc' \in {"separate", "analyze", "image", "video", "length", "audio",
                         "depth", "palette", "loop"}
             /\ files' = files /\ dirs' = dirs /\ calls' = << >>
             /\ (pc' = "loop") => (idx' = idx + 1 /\ ret'.isNone /\ fault' = fault)
             /\ (pc' # "loop") => idx' = idx]_vars
    /\ [][pc # "loop" => (file_type' = file_type /\ path' = path /\ output_dir' = output_dir)]_vars
    /\ [](pc \in {"separate", "dynamics"} => (analyzer = "sound_extraction" /\ file_type = "video"))
    /\ [](pc = "analyze" => (analyzer = "llm_insights" /\ file_type = "image"))
    /\ [](pc \in {"video", "frames"} => (analyzer \in FrameAnalyzers /\ file_type = "video"))
    /\ [](pc = "image" => (analyzer \in FrameAnalyzers /\ file_type = "image"))
    /\ [](pc = "length" => (analyzer = "video_length" /\ file_type = "video"))
    /\ [](pc = "audio" => (analyzer = "sound" /\ file_type = "video"))
    /\ [](pc = "depth" => (analyzer = "depth_map" /\ file_type = "image"))
    /\ [](pc = "palette" => (analyzer = "color_theory" /\ file_type = "image"))
    /\ [](file_type = "unknown" => measured = << >>)
    /\ []((calls # << >> \/ pc = "save") => analyzer \in FrameAnalyzers)
    /\ [](file_type = "unknown" => (calls = << >> /\ cap = "none" /\ detector = "none"))

\* llm_insights.run was given a video and then a file of unknown type: both
\* calls ended without analyze_ad_image, nothing was written
C23_Witness ==
    /\ analyzer = "llm_insights"
    /\ pc = "loop"
    /\ idx = 2
    /\ SpecTag(queue[1]) = "video"
    /\ SpecTag(queue[2]) = "unknown"
    /\ files = << >>
    /\ dirs = {}
    /\ writes = 0

\* C24: for every frame rate fps > 0, whole or fractional, the sample tagged
\* second s is taken from a frame whose timestamp frame_number / fps lies in
\* [s, s + 1), and a stream of N frames gives at most ceil(N / fps) samples.
C24_OneSamplePerElapsedSecond ==
    (TraversalDone /\ fps.num > 0) =>
        /\ \A i \in 1..Len(calls) :
              /\ calls[i].second * fps.num <= calls[i].frame * fps.den
              /\ calls[i].frame * fps.den < (calls[i].second + 1) * fps.num
        /\ Len(calls) <= CeilDiv(nframes * fps.den, fps.num)

\* the first tokens of the lines that render a landmark, or head a face or a
\* text box, or give the text of a box
ItemHeads ==
    { "Landmark " \o ToString(k) \o ":" : k \in 0..11 }
    \cup { "Face " \o ToString(k) \o ":" : k \in 0..4 }
    \cup { "Text Box " \o ToString(k) \o ":" : k \in 0..4 }
    \cup { "Text:" }

IsItemLine(l) == Len(l) >= 2 /\ l[2] \in ItemHeads

\* these lines of a text in their order, without their indentation
Items(ls) ==
    LET it == SelectSeq(ls, IsItemLine)
    IN  [i \in 1..Len(it) |-> Tail(it[i])]

\* what is to be read for one detector result: its detections in the order
\* of the result, faces and text boxes numbered from 1
ExpectedItems(a, data) ==
    CASE a = "body_keypoints" ->
            [i \in 1..Len(data) |->
                <<"Landmark " \o ToString(data[i][1]) \o ":",
                  "(" \o ToString(data[i][2]) \o ", " \o ToString(data[i][3]) \o ")",
                  "| Visibility:", Fmt3(data[i][4])>>]
      [] a = "face_keypoints" ->
            Flatten([i \in 1..Len(data) |->
                << <<"Face " \o ToString(i) \o ":">> >>
                \o [j \in 1..Len(data[i]) |->
                      <<"Landmark " \o ToString(data[i][j][1]) \o ":",
                        "(" \o ToString(data[i][j][2]) \o ", "
                            \o ToString(data[i][j][3]) \o ")">>]])
      [] a = "text_boxes" ->
            Flatten([i \in 1..Len(data) |->
                << <<"Text Box " \o ToString(i) \o ":">>, <<"Text:", data[i].text>> >>])

\* the frames handed to the detector and what it returned for each
Samples(cs) == [i \in 1..Len(cs) |-> <<cs[i].frame, cs[i].data>>]

\* an extraction of a frame analyzer has returned a report
Extracted ==
    /\ analyzer \in FrameAnalyzers
    /\ pc \in {"save", "loop"}
    /\ ~text.isNone

\* C25: the report of an extraction renders the detections of every detector
\* result in the order of the result, each once, also when the result is
\* unsorted or repeats a detection, faces and text boxes numbered 1, 2, ...
\* within their group; and an extraction that is given the same frames and
\* the same detector results as the extraction before it, on the same path,
\* returns the same text.
C25_DeterministicOrdered ==
    /\ Extracted =>
          Items(text.lines)
            = Flatten([i \in 1..Len(calls) |-> ExpectedItems(analyzer, calls[i].data)])
    /\ (Extracted /\ prev.same /\ ~prev.text.isNone /\ Samples(calls) = Samples(prev.calls)) =>
          text = prev.text

\* two traversals of the same video in which the face detector returned the
\* same three faces, the third a repetition of the first, for two frames:
\* the reports are the same
C25_Witness ==
    /\ Extracted
    /\ analyzer = "face_keypoints"
    /\ file_type = "video"
    /\ prev.same
    /\ Len(calls) = 2
    /\ Len(calls[1].data) = 3
    /\ calls[1].data[1] = calls[1].data[3]
    /\ Samples(calls) = Samples(prev.calls)
    /\ text = prev.text
    /\ Len(Items(text.lines)) = 16

\* C26: in a video traversal the detector is called once for every frame
\* that passes the sampling test, in frame order, and for no other frame;
\* every call that returns gives one `Second` group, rendered from the
\* result of that call and of no other, so a finished traversal has as many
\* groups as detector calls; a call that raises ends the traversal.
C26_OneCallPerSample ==
    /\ (file_type = "video" /\ pc \in {"frames", "save", "loop", "raised"} /\ frame_interval > 0) =>
          /\ \A i \in 1..Len(calls) :
                /\ calls[i].frame % frame_interval = 0
                /\ calls[i].frame = (i - 1) * frame_interval
                /\ calls[i].second = i - 1
          /\ \A n \in 0..(frame_number - 1) :
                Cardinality({ i \in 1..Len(calls) : calls[i].frame = n })
                  = (IF n % frame_interval = 0 THEN 1 ELSE 0)
          /\ Len(calls) = current_second + (IF fault = "detector" THEN 1 ELSE 0)
          /\ result_lines = Flatten([i \in 1..current_second |->
                                        VideoLines(analyzer, i - 1, calls[i].data)])
    /\ (TraversalDone /\ fault = "none") =>
          /\ Len(calls) = Len(ParsedSeconds(text.lines))
          /\ frame_number = nframes
          /\ calls # << >> => text.lines = result_lines

\* five frames at fps = 2: the detector was called for the frames 0, 2 and 4,
\* found something, nothing, something, and the report has three groups
C26_Witness ==
    /\ TraversalDone
    /\ fps = [num |-> 2, den |-> 1]
    /\ nframes = 5
    /\ [i \in 1..Len(calls) |-> calls[i].frame] = <<0, 2, 4>>
    /\ calls[1].data # << >>
    /\ calls[2].data = << >>
    /\ calls[3].data # << >>
    /\ Len(ParsedSeconds(text.lines)) = 3

\* C27: a traversal of a stream of finitely many frames ends, and it ends at
\* the first read without a frame, which is the read after the last frame:
\* every turn of its loop that decodes a frame raises frame_number by exactly
\* 1, sampled or not, frame_number never goes down, and the stream is released
\* when the traversal returns its report. (A traversal that the detector
\* ends with an exception of its own is left aside.)
C27_TraversalTerminates ==
    /\ (pc = "frames") ~> (pc = "save" \/ fault = "detector")
    /\ []((file_type = "video" /\ cap = "open" /\ fault # "detector") =>
             (pc = "frames" /\ frame_number <= nframes))
    /\ [][(pc = "frames" /\ pc' = "frames") => frame_number' = frame_number + 1]_vars
    /\ [][pc = "frames" => frame_number' >= frame_number]_vars
    /\ [][(pc = "frames" /\ fault' # "detector") =>
             \/ pc' = "frames"
             \/ /\ pc' = "save"
                /\ frame_number = nframes
                /\ frame_number' = frame_number
                /\ cap' = "released"
                /\ ~text'.isNone]_vars
    /\ []((file_type = "video" /\ pc \in {"save", "loop"} /\ ~text.isNone) =>
             (cap = "released" /\ frame_number = nframes))

\* C28: whenever the sampling loop runs, the interval that frame_number is
\* taken modulo is at least 1, and the modulus never divides by zero,
\* whatever frame rate above 0 the stream reports.
C28_IntervalAtLeastOne ==
    /\ pc = "frames" => frame_interval >= 1
    /\ fault # "zerodivision"

\* C29: a call of save_keypoints / save_text_boxes that ends with no result
\* (the path is neither image nor video, the image cannot be read, the stream
\* does not open or reports fps <= 0) returns None and none of its steps
\* makes a directory or creates, empties, changes or removes a file; what an
\* earlier call wrote stays as it is.
C29_NoResultNoEffect ==
    /\ []((analyzer \in FrameAnalyzers /\ pc = "save") =>
            (text.isNone <=> ((file_type = "image" /\ calls = << >>) \/ NoStream)))
    /\ [][(analyzer \in FrameAnalyzers
            /\ (pc \in {"loop", "image", "video"} \/ (pc = "save" /\ text.isNone))) =>
             (files' = files /\ dirs' = dirs /\ writes' = writes)]_vars
    /\ [][(analyzer \in FrameAnalyzers /\ pc = "save" /\ text.isNone) =>
             (pc' = "loop" /\ ret'.isNone /\ idx' = idx + 1 /\ fault' = "none")]_vars
    /\ [][(analyzer \in FrameAnalyzers /\ pc = "loop" /\ SpecTag(queue[idx + 1]) = "unknown") =>
             (pc' = "loop" /\ ret'.isNone /\ idx' = idx + 1 /\ fault' = "none")]_vars
    /\ [][(analyzer \in FrameAnalyzers /\ pc' = "save" /\ text'.isNone) => fault' = "none"]_vars

\* a.png was written, then the stream of a.mp4 reported fps <= 0: the call
\* returned None and a.txt still holds the report of the image
C29_Witness ==
    /\ analyzer \in FrameAnalyzers
    /\ pc = "loop"
    /\ idx = 2
    /\ queue[1] = [stem |-> "a", suffix |-> <<".","p","n","g">>]
    /\ queue[2] = [stem |-> "a", suffix |-> <<".","m","p","4">>]
    /\ cap = "released"
    /\ fps.num <= 0
    /\ ret.isNone
    /\ writes = 1
    /\ TargetFile \in DOMAIN files
    /\ files[TargetFile] # << >>
    /\ \A l \in Range(files[TargetFile]) : ~IsSecondLine(l)

\* the call before the current one was given the same path and left a file
\* of the name the current call writes, with text in it
FirstWrote ==
    /\ prev.same
    /\ \E f \in DOMAIN prev.files :
          /\ f.name = (CASE analyzer = "sound_extraction" -> "manifest.txt"
                         [] analyzer = "color_theory" ->
                               path.stem \o "_with_palette" \o Str(path.suffix)
                         [] OTHER -> path.stem \o ".txt")
          /\ prev.files[f] # << >>

\* the current call got from its detector, separator, analyzer or stream
\* what the call before got
SameResults ==
    CASE analyzer \in FrameAnalyzers ->
            ~text.isNone /\ ~prev.text.isNone /\ Samples(calls) = Samples(prev.calls)
      [] analyzer = "sound_extraction" -> results = prev.results /\ measured = prev.measured
      [] analyzer = "llm_insights" -> ~report.isNone /\ report = prev.report
      [] analyzer = "video_length" -> seconds = prev.seconds
      [] OTHER -> measured = prev.measured

\* C30: when an analyzer is run a second time on the same input with the
\* same output directory, gets the same results and writes its output again,
\* the files are exactly what the first run left: the output file holds the
\* one report (or manifest) it held, not two, and every other file is as it
\* was.
C30_RerunIdempotent ==
    (pc = "loop" /\ FirstWrote /\ ~ret.isNone /\ SameResults) =>
        /\ files = prev.files
        /\ ret \in DOMAIN files
        /\ analyzer # "sound_extraction" => files[ret] = CurrentReport.lines
        /\ analyzer = "sound_extraction" =>
              Len(SelectSeq(files[ret], IsTotalLine)) = 1
        /\ fault = "none"

\* b.png was written, then a.mp4 twice with two groups of text boxes each
\* time: a.txt holds the one report and b.txt is as it was
C30_Witness ==
    /\ pc = "loop"
    /\ idx = 3
    /\ analyzer = "text_boxes"
    /\ file_type = "video"
    /\ FirstWrote
    /\ SameResults
    /\ ~ret.isNone
    /\ Len(calls) = 2
    /\ calls[1].data # << >>
    /\ files = prev.files
    /\ Cardinality(DOMAIN files) = 2
    /\ ParsedSeconds(files[ret]) = <<0, 1>>

====
